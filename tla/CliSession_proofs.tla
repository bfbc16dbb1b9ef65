-------------------------- MODULE CliSession_proofs --------------------------
(***************************************************************************)
(* What a delegated script leaves running is known, and what others keep in   *)
(* the files of an installation survives it: for every command line, signal,  *)
(* list of servers and text, however often the process is killed.            *)
(***************************************************************************)
EXTENDS CliSession, SequenceTheorems, WellFoundedInduction, TLAPS

-----------------------------------------------------------------------------
(* The process and the group of its script.                                  *)

ProcessTypeOK ==
  /\ pc \in {"started", "spawned", "waiting", "installing", "ended"}
  /\ group \subseteq Group
  /\ scriptEnd \in {None, Running} \cup ScriptCodes \cup Signal
  /\ sent \in [Group -> Signal \cup {None}]

Unsent == \A p \in Group : sent[p] = None

\* Only a delegation has a group; the group runs until the script has an end.
Delegation ==
  /\ ~Delegates => group = {} /\ Unsent
  /\ pc \in {"spawned", "waiting"} => Delegates /\ scriptEnd # None
  /\ pc \in {"started", "installing"} => group = {}
  /\ pc # "ended" => Unsent
  /\ pc = "installing" => Installs
  /\ "script" \in group => scriptEnd = Running

\* NoOrphanUnawares, of a group that may be empty.
Farewell ==
  pc = "ended" =>
    \/ exitCode \in {"130", "143"} /\ (\A p \in group : sent[p] # None \/ "script" \in deaf)
    \/ exitCode \in Signal /\ Unsent
    \/ exitCode \in {"0", "1", "3"} /\ "script" \notin group

ProcessInv == ProcessTypeOK /\ Delegation /\ Farewell

\* An installation is no delegation, and one that does not report fails.
LEMMA InstallsAlone ==
  /\ Installs => ~Delegates
  /\ Installs => ExitOf(FALSE) = "1"
<1>1. Installs => Command = "install" /\ ~Contradictory
  BY DEF Installs
<1>2. Installs => ~Delegates
  BY <1>1 DEF Delegates
<1>3. Command = "install" /\ ~Contradictory => ExitOf(FALSE) = "1"
  BY DEF ExitOf
<1>4. QED
  BY <1>1, <1>2, <1>3

LEMMA ExitCodes ==
  ASSUME NEW well \in BOOLEAN
  PROVE  ExitOf(well) \in {"0", "1"}
<1>1. JournalExit(well) \in {"0", "1"} /\ ActExit(well) \in {"0", "1"}
  BY DEF JournalExit, ActExit
<1>2. CASE Contradictory
  BY <1>2 DEF ExitOf
<1>3. CASE ~Contradictory
  <2>1. CASE Command = "ctx"
    BY <1>3, <2>1 DEF ExitOf
  <2>2. CASE Command = "env"
    BY <1>3, <2>2 DEF ExitOf
  <2>3. CASE Command = "journal"
    BY <1>1, <1>3, <2>3 DEF ExitOf
  <2>4. CASE Command \in {"", "doctor", "capabilities", "setup", "metrics", "health",
                         "--version", "-V", "--help", "-h"}
    BY <1>3, <2>4 DEF ExitOf
  <2>5. CASE Command = "diagnose"
    BY <1>3, <2>5 DEF ExitOf
  <2>6. CASE Command = "act"
    BY <1>1, <1>3, <2>6 DEF ExitOf
  <2>7. CASE Command = "serve"
    BY <1>3, <2>7 DEF ExitOf
  <2>8. CASE Command \notin {"ctx", "env", "journal", "", "doctor", "capabilities", "setup",
                             "metrics", "health", "--version", "-V", "--help", "-h", "diagnose",
                             "act", "serve"}
    BY <1>3, <2>8 DEF ExitOf
  <2>9. QED
    BY <2>1, <2>2, <2>3, <2>4, <2>5, <2>6, <2>7, <2>8
<1>4. QED
  BY <1>2, <1>3

\* What a process is called with does not change.
LEMMA ArgsDecide ==
  ASSUME args' = args
  PROVE  (Delegates' <=> Delegates) /\ (Installs' <=> Installs)
<1>1. Delegates' <=> Delegates
  BY DEF Delegates, Command, Contradictory, JsonMode, ContextMode, Contains
<1>2. TargetIndex' = TargetIndex
  BY DEF TargetIndex, SelectInSeq, Min
<1>3. Installs' <=> Installs
  BY <1>2 DEF Installs, Target, Command, Contradictory, JsonMode, ContextMode, Contains
<1>4. QED
  BY <1>1, <1>3

\* The steps of a session, as far as the process goes.
Again ==
  /\ pc = "ended" /\ Installs
  /\ pc' = "started" /\ exitCode' = None
  /\ UNCHANGED <<args, group, scriptEnd, pending, sent, deaf>>
ProcessNext ==
  \/ ProcessStep \/ StartInstalling \/ EndInstalling("0") \/ EndInstalling("1")
  \/ \E s \in Signal : ReceiveSignal(s)
  \/ GroupStep \/ Again

LEMMA ProcessSteps == [Next]_vars => [ProcessNext]_processVars
BY DEF Next, OwnStep, RunProcess, Begin, Write, Report, WriteFails, Signalled, CallAgain, Others,
       ProcessNext, Again, vars

LEMMA ProcessInitInv == CliInit => ProcessInv
BY DEF CliInit, ProcessInv, ProcessTypeOK, Delegation, Farewell, Unsent, Group, None

LEMMA ProcessInvKept ==
  ASSUME ProcessInv, [ProcessNext]_processVars
  PROVE  ProcessInv'
<1> USE DEF None, Running, Signal, ScriptCodes
<1>1. ProcessTypeOK /\ Delegation /\ Farewell
  BY DEF ProcessInv
<1>2. args' = args
  BY DEF ProcessNext, ProcessStep, RunCommand, SpawnScript, SpawnFails, InstallHandlers, Close,
         Forward, StartInstalling, EndInstalling, ReceiveSignal, GroupStep, StartHelper,
         HelperExits, ScriptExits, DiesOfSignal, Again, processVars
<1>3. (Delegates' <=> Delegates) /\ (Installs' <=> Installs)
  BY <1>2, ArgsDecide
<1>4. Installs => ~Delegates
  BY InstallsAlone
<1> USE DEF ProcessTypeOK, Delegation, Farewell, Unsent
<1>5. ASSUME NEW well \in BOOLEAN, RunCommand(well) PROVE ProcessInv'
  <2>1. ExitOf(well) \in {"0", "1"}
    BY ExitCodes
  <2>2. QED
    BY <1>1, <1>3, <1>4, <1>5, <2>1 DEF RunCommand, End, ProcessInv
<1>6. CASE SpawnScript
  BY <1>1, <1>3, <1>6 DEF SpawnScript, Alone, Group, ProcessInv
<1>7. CASE SpawnFails
  BY <1>1, <1>3, <1>7 DEF SpawnFails, End, ProcessInv
<1>8. CASE InstallHandlers
  BY <1>1, <1>3, <1>8 DEF InstallHandlers, ProcessInv
<1>9. CASE Close
  BY <1>1, <1>3, <1>9 DEF Close, End, ProcessInv
<1>10. ASSUME NEW s \in Signal, Forward(s) PROVE ProcessInv'
  BY <1>1, <1>3, <1>10 DEF Forward, ForwardToGroup, End, ExitCodeOf, ProcessInv
<1>11. CASE StartInstalling
  BY <1>1, <1>3, <1>4, <1>11 DEF StartInstalling, ProcessInv
<1>12. CASE EndInstalling("0") \/ EndInstalling("1")
  BY <1>1, <1>3, <1>12 DEF EndInstalling, End, ProcessInv
<1>13. ASSUME NEW s \in Signal, ReceiveSignal(s) PROVE ProcessInv'
  BY <1>1, <1>3, <1>13 DEF ReceiveSignal, End, ProcessInv
<1>14. CASE StartHelper
  BY <1>1, <1>3, <1>14 DEF StartHelper, Group, ProcessInv
<1>15. CASE HelperExits
  BY <1>1, <1>3, <1>15 DEF HelperExits, ProcessInv
<1>16. ASSUME NEW code \in ScriptCodes, ScriptExits(code) PROVE ProcessInv'
  BY <1>1, <1>3, <1>16 DEF ScriptExits, ProcessInv
<1>17. ASSUME NEW p \in Group, DiesOfSignal(p) PROVE ProcessInv'
  BY <1>1, <1>3, <1>17 DEF DiesOfSignal, ProcessInv
<1>18. CASE Again
  BY <1>1, <1>3, <1>4, <1>18 DEF Again, ProcessInv
<1>19. CASE UNCHANGED processVars
  BY <1>1, <1>3, <1>19 DEF processVars, ProcessInv
<1>20. QED
  BY <1>5, <1>6, <1>7, <1>8, <1>9, <1>10, <1>11, <1>12, <1>13, <1>14, <1>15, <1>16, <1>17,
     <1>18, <1>19
  DEF ProcessNext, ProcessStep, GroupStep

LEMMA ProcessInvariant == Spec => []ProcessInv
<1>1. SessionInit => ProcessInv
  BY ProcessInitInv DEF SessionInit
<1>2. ProcessInv /\ [Next]_vars => ProcessInv'
  BY ProcessSteps, ProcessInvKept
<1>3. QED
  BY <1>1, <1>2, PTL DEF Spec

\* When the process has ended, what lives of the script's group has been told, or
\* could not be, or is left on purpose by a script that ended (ctx.ts:98).
THEOREM NoOrphanUnaware == Spec => []NoOrphanUnawares
<1>1. ProcessInv => NoOrphanUnawares
  BY DEF ProcessInv, Farewell, Unsent, NoOrphanUnawares
<1>2. QED
  BY <1>1, ProcessInvariant, PTL

-----------------------------------------------------------------------------
(* A set of natural numbers has a least one.                                  *)

LessThan == {pair \in Nat \X Nat : pair[1] < pair[2]}

LEMMA LessThanWellFounded == IsWellFoundedOn(LessThan, Nat)
BY NatLessThanWellFounded DEF OpToRel, LessThan

LEMMA LeastElement ==
  ASSUME NEW S, S \subseteq Nat, S # {}
  PROVE  \E m \in S : \A n \in S : m <= n
<1>1. PICK m \in S : \A n \in S : ~(<<n, m>> \in LessThan)
  BY LessThanWellFounded, WFMin
<1>2. \A n \in S : m <= n
  <2> TAKE n \in S
  <2>1. <<n, m>> \in Nat \X Nat
    OBVIOUS
  <2>2. ~(n < m)
    BY <1>1, <2>1 DEF LessThan
  <2>3. QED
    BY <2>2
<1>3. QED
  BY <1>2

-----------------------------------------------------------------------------
(* Texts and their markers.                                                  *)

Text == Seq(Piece)

LEMMA FirstOccurrence ==
  ASSUME NEW c \in Text, NEW m, Contains(c, m)
  PROVE  /\ FirstIndex(c, m) \in 1 .. Len(c) /\ c[FirstIndex(c, m)] = m
         /\ \A i \in 1 .. Len(c) : c[i] = m => FirstIndex(c, m) <= i
<1> DEFINE I == {i \in 1 .. Len(c) : c[i] = m}
<1>1. FirstIndex(c, m) = Min(I)
  BY DEF FirstIndex, SelectInSeq, Contains
<1>2. I # {} /\ I \subseteq Nat
  BY DEF Contains
<1>3. \E x \in I : \A y \in I : x <= y
  <2> HIDE DEF I
  <2>1. QED
    BY <1>2, LeastElement
<1>4. Min(I) \in I /\ \A y \in I : Min(I) <= y
  <2> HIDE DEF I
  <2>1. QED
    BY <1>3 DEF Min
<1>5. QED
  BY <1>1, <1>4

LEMMA FirstIsUnique ==
  ASSUME NEW c \in Text, NEW m, NEW k \in 1 .. Len(c), c[k] = m,
         \A i \in 1 .. Len(c) : c[i] = m => k <= i
  PROVE  FirstIndex(c, m) = k /\ Contains(c, m)
<1>1. Contains(c, m) /\ Len(c) \in Nat
  BY DEF Contains, Text
<1>2. /\ FirstIndex(c, m) \in 1 .. Len(c) /\ c[FirstIndex(c, m)] = m
      /\ FirstIndex(c, m) <= k
  BY <1>1, FirstOccurrence
<1>3. QED
  BY <1>1, <1>2

\* A part of a text.
LEMMA PartOfText ==
  ASSUME NEW c \in Text, NEW m \in Nat \ {0}, NEW n \in Nat, n <= Len(c)
  PROVE  /\ SubSeq(c, m, n) \in Text
         /\ Len(SubSeq(c, m, n)) = IF m <= n THEN n - m + 1 ELSE 0
         /\ \A i \in 1 .. n - m + 1 : SubSeq(c, m, n)[i] = c[m + i - 1]
<1>1. \A i \in m .. n : i \in 1 .. Len(c) /\ c[i] \in Piece
  <2>1. \A i \in m .. n : i \in 1 .. Len(c)
    BY DEF Text
  <2>2. QED
    BY <2>1 DEF Text
<1>2. m \in Int /\ n \in Int
  OBVIOUS
<1>3. QED
  BY <1>1, <1>2, SubSeqProperties DEF Text

LEMMA SameText ==
  ASSUME NEW s \in Text, NEW t \in Text, Len(s) = Len(t), \A i \in 1 .. Len(s) : s[i] = t[i]
  PROVE  s = t
BY SeqEqual DEF Text

LEMMA JoinedText ==
  ASSUME NEW a \in Text, NEW b \in Text
  PROVE  /\ a \o b \in Text /\ Len(a \o b) = Len(a) + Len(b)
         /\ \A i \in 1 .. Len(a) : (a \o b)[i] = a[i]
         /\ \A i \in 1 .. Len(b) : (a \o b)[Len(a) + i] = b[i]
         /\ Len(a) \in Nat /\ Len(b) \in Nat
<1>1. a \in Seq(Piece) /\ b \in Seq(Piece) /\ Len(a) \in Nat /\ Len(b) \in Nat
  BY DEF Text
<1>2. a \o b \in Text
  BY <1>1, ConcatProperties DEF Text
<1>3. Len(a \o b) = Len(a) + Len(b)
  BY <1>1, ConcatProperties
<1>4. \A i \in 1 .. Len(a) + Len(b) : (a \o b)[i] = IF i <= Len(a) THEN a[i] ELSE b[i - Len(a)]
  BY <1>1, ConcatProperties
<1>5. \A i \in 1 .. Len(a) : (a \o b)[i] = a[i]
  BY <1>1, <1>4
<1>6. ASSUME NEW i \in 1 .. Len(b) PROVE (a \o b)[Len(a) + i] = b[i]
  <2>1. /\ Len(a) + i \in 1 .. Len(a) + Len(b) /\ ~(Len(a) + i <= Len(a))
        /\ (Len(a) + i) - Len(a) = i
    BY <1>1
  <2>2. QED
    BY <1>4, <2>1
<1>7. QED
  BY <1>1, <1>2, <1>3, <1>5, <1>6

HasBlock(content) ==
  \E n \in 0 .. Len(content) - 3 : SubSeq(content, n + 1, n + 3) = BuffyBlock

\* A block between two parts that have no marker before it is the first one.
Framed(text, a, b) ==
  /\ Len(text) = Len(a) + 3 + Len(b)
  /\ \A i \in 1 .. Len(a) : text[i] = a[i]
  /\ text[Len(a) + 1] = START /\ text[Len(a) + 2] = "block" /\ text[Len(a) + 3] = END
  /\ \A i \in 1 .. Len(b) : text[Len(a) + 3 + i] = b[i]

LEMMA BlockText ==
  /\ BuffyBlock \in Text /\ Len(BuffyBlock) = 3
  /\ BuffyBlock[1] = START /\ BuffyBlock[2] = "block" /\ BuffyBlock[3] = END
<1>1. START \in Piece /\ "block" \in Piece /\ END \in Piece
  BY DEF Piece, BuffyBlock, ToSet
<1>2. \A x, y, z \in Piece : <<x, y, z>> \in Seq(Piece)
  OBVIOUS
<1>3. BuffyBlock \in Text
  BY <1>1, <1>2 DEF BuffyBlock, Text
<1>4. Len(BuffyBlock) = 3
  BY DEF BuffyBlock
<1>5. BuffyBlock[1] = START /\ BuffyBlock[2] = "block" /\ BuffyBlock[3] = END
  BY DEF BuffyBlock
<1>6. QED
  BY <1>3, <1>4, <1>5

LEMMA FramedText ==
  ASSUME NEW a \in Text, NEW b \in Text
  PROVE  (a \o BuffyBlock) \o b \in Text /\ Framed((a \o BuffyBlock) \o b, a, b)
<1>1. /\ BuffyBlock \in Text /\ Len(BuffyBlock) = 3
      /\ BuffyBlock[1] = START /\ BuffyBlock[2] = "block" /\ BuffyBlock[3] = END
  BY BlockText
<1> DEFINE c == a \o BuffyBlock
           t == c \o b
<1>2. /\ c \in Text /\ Len(c) = Len(a) + 3
      /\ \A i \in 1 .. Len(a) : c[i] = a[i]
      /\ \A i \in 1 .. 3 : c[Len(a) + i] = BuffyBlock[i]
      /\ Len(a) \in Nat
  <2>1. /\ c \in Text /\ Len(c) = Len(a) + Len(BuffyBlock) /\ Len(a) \in Nat
        /\ \A i \in 1 .. Len(a) : c[i] = a[i]
    BY <1>1, JoinedText
  <2>2. \A i \in 1 .. Len(BuffyBlock) : c[Len(a) + i] = BuffyBlock[i]
    BY <1>1, JoinedText
  <2> HIDE DEF c
  <2>3. QED
    BY <1>1, <2>1, <2>2
<1> HIDE DEF c
<1>3. /\ t \in Text /\ Len(t) = Len(c) + Len(b)
      /\ \A i \in 1 .. Len(c) : t[i] = c[i]
      /\ \A i \in 1 .. Len(b) : t[Len(c) + i] = b[i]
      /\ Len(b) \in Nat
  BY <1>2, JoinedText
<1> HIDE DEF t
<1>4. \A i \in 1 .. Len(a) : t[i] = a[i]
  BY <1>2, <1>3
<1>5. t[Len(a) + 1] = START /\ t[Len(a) + 2] = "block" /\ t[Len(a) + 3] = END
  <2>1. \A i \in 1 .. 3 : Len(a) + i \in 1 .. Len(c)
    BY <1>2
  <2>2. QED
    BY <1>1, <1>2, <1>3, <2>1
<1>6. \A i \in 1 .. Len(b) : t[Len(a) + 3 + i] = b[i]
  BY <1>2, <1>3
<1>7. Len(t) = Len(a) + 3 + Len(b)
  BY <1>2, <1>3
<1>8. QED
  BY <1>3, <1>4, <1>5, <1>6, <1>7 DEF Framed, c, t

LEMMA FramedMeaning ==
  ASSUME NEW a \in Text, NEW b \in Text, NEW t \in Text, Framed(t, a, b),
         ~Contains(a, START), ~Contains(a, END)
  PROVE  WellFenced(t) /\ UserText(t) = a \o b /\ HasBlock(t)
<1>1. /\ Len(a) \in Nat /\ Len(b) \in Nat /\ Len(t) = Len(a) + 3 + Len(b)
      /\ \A i \in 1 .. Len(a) : a[i] # START /\ a[i] # END
      /\ \A i \in 1 .. Len(a) : t[i] = a[i]
      /\ t[Len(a) + 1] = START /\ t[Len(a) + 2] = "block" /\ t[Len(a) + 3] = END
      /\ \A i \in 1 .. Len(b) : t[Len(a) + 3 + i] = b[i]
  BY DEF Framed, Contains, Text
<1>2. FirstIndex(t, START) = Len(a) + 1 /\ Contains(t, START)
  <2>1. \A i \in 1 .. Len(t) : t[i] = START => Len(a) + 1 <= i
    BY <1>1
  <2>2. Len(a) + 1 \in 1 .. Len(t)
    BY <1>1
  <2>3. QED
    BY <1>1, <2>1, <2>2, FirstIsUnique
<1>3. FirstIndex(t, END) = Len(a) + 3 /\ Contains(t, END)
  <2>1. START # END /\ "block" # END
    BY DEF START, END
  <2>2. ASSUME NEW i \in 1 .. Len(t), t[i] = END PROVE Len(a) + 3 <= i
    <3>1. i # Len(a) + 1 /\ i # Len(a) + 2 /\ ~(i <= Len(a))
      BY <1>1, <2>1, <2>2
    <3>2. QED
      BY <1>1, <3>1
  <2>3. Len(a) + 3 \in 1 .. Len(t)
    BY <1>1
  <2>4. QED
    BY <1>1, <2>2, <2>3, FirstIsUnique
<1>4. WellFenced(t)
  BY <1>1, <1>2, <1>3 DEF WellFenced
<1>5. SubSeq(t, 1, Len(a)) = a
  <2>1. Len(a) <= Len(t) /\ 1 \in Nat \ {0}
    BY <1>1
  <2>2. /\ SubSeq(t, 1, Len(a)) \in Text
        /\ Len(SubSeq(t, 1, Len(a))) = IF 1 <= Len(a) THEN Len(a) - 1 + 1 ELSE 0
        /\ \A i \in 1 .. Len(a) - 1 + 1 : SubSeq(t, 1, Len(a))[i] = t[1 + i - 1]
    BY <1>1, <2>1, PartOfText
  <2>3. Len(SubSeq(t, 1, Len(a))) = Len(a)
    BY <1>1, <2>2
  <2>4. \A i \in 1 .. Len(a) : SubSeq(t, 1, Len(a))[i] = a[i]
    <3> TAKE i \in 1 .. Len(a)
    <3>1. i \in 1 .. Len(a) - 1 + 1 /\ 1 + i - 1 = i
      BY <1>1
    <3>2. QED
      BY <1>1, <2>2, <3>1
  <2>5. QED
    BY <2>2, <2>3, <2>4, SameText
<1>6. SubSeq(t, Len(a) + 4, Len(t)) = b
  <2> DEFINE m == Len(a) + 4
             r == SubSeq(t, m, Len(t))
  <2>1. m \in Nat \ {0} /\ Len(t) \in Nat /\ Len(t) <= Len(t)
    BY <1>1
  <2>2. /\ r \in Text
        /\ Len(r) = IF m <= Len(t) THEN Len(t) - m + 1 ELSE 0
        /\ \A i \in 1 .. Len(t) - m + 1 : r[i] = t[m + i - 1]
    <3> HIDE DEF m
    <3>1. QED
      BY <2>1, PartOfText
  <2> HIDE DEF r
  <2>3. Len(r) = Len(b)
    BY <1>1, <2>2
  <2>4. \A i \in 1 .. Len(b) : r[i] = b[i]
    <3> TAKE i \in 1 .. Len(b)
    <3>1. i \in 1 .. Len(t) - m + 1 /\ m + i - 1 = Len(a) + 3 + i
      BY <1>1
    <3>2. r[i] = t[Len(a) + 3 + i]
      BY <2>2, <3>1
    <3>3. QED
      BY <1>1, <3>2
  <2>5. r = b
    BY <2>2, <2>3, <2>4, SameText
  <2>6. QED
    BY <2>5 DEF r
<1>7. UserText(t) = a \o b
  <2>1. (Len(a) + 1) - 1 = Len(a) /\ (Len(a) + 3) + 1 = Len(a) + 4
    BY <1>1
  <2>2. QED
    BY <1>2, <1>3, <1>4, <1>5, <1>6, <2>1 DEF UserText
<1>8. HasBlock(t)
  <2> DEFINE m == Len(a) + 1
             n == Len(a) + 3
             r == SubSeq(t, m, n)
  <2>1. m \in Nat \ {0} /\ n \in Nat /\ n <= Len(t) /\ n - m + 1 = 3 /\ m <= n
    BY <1>1
  <2>2. /\ r \in Text /\ Len(r) = 3
        /\ \A i \in 1 .. 3 : r[i] = t[m + i - 1]
    <3> HIDE DEF m, n
    <3>1. QED
      BY <2>1, PartOfText
  <2> HIDE DEF r
  <2>3. m + 1 - 1 = Len(a) + 1 /\ m + 2 - 1 = Len(a) + 2 /\ m + 3 - 1 = Len(a) + 3
    BY <1>1
  <2>4. r[1] = START /\ r[2] = "block" /\ r[3] = END
    <3>1. r[1] = t[m + 1 - 1] /\ r[2] = t[m + 2 - 1] /\ r[3] = t[m + 3 - 1]
      BY <2>2
    <3>2. QED
      BY <1>1, <2>3, <3>1
  <2>5. r = BuffyBlock
    <3>1. /\ BuffyBlock \in Text /\ Len(BuffyBlock) = 3
          /\ BuffyBlock[1] = START /\ BuffyBlock[2] = "block" /\ BuffyBlock[3] = END
      BY BlockText
    <3>2. \A i \in 1 .. 3 : i = 1 \/ i = 2 \/ i = 3
      OBVIOUS
    <3>3. \A i \in 1 .. Len(r) : r[i] = BuffyBlock[i]
      BY <2>2, <2>4, <3>1, <3>2
    <3>4. QED
      BY <2>2, <3>1, <3>3, SameText
  <2>6. Len(a) \in 0 .. Len(t) - 3
    BY <1>1
  <2>7. QED
    BY <2>5, <2>6 DEF HasBlock, r
<1>9. QED
  BY <1>4, <1>7, <1>8

\* A text between its markers: what is before the first and after the last.
LEMMA FencedParts ==
  ASSUME NEW c \in Text, WellFenced(c), Contains(c, START)
  PROVE  LET s == FirstIndex(c, START)
             e == FirstIndex(c, END)
         IN /\ s \in 1 .. Len(c) /\ e \in 1 .. Len(c) /\ s < e /\ Len(c) \in Nat
            /\ c[s] = START /\ c[e] = END /\ Contains(c, END)
            /\ \A i \in 1 .. Len(c) : (c[i] = START => s <= i) /\ (c[i] = END => e <= i)
            /\ SubSeq(c, 1, s - 1) \in Text /\ SubSeq(c, e + 1, Len(c)) \in Text
            /\ ~Contains(SubSeq(c, 1, s - 1), START) /\ ~Contains(SubSeq(c, 1, s - 1), END)
            /\ Len(SubSeq(c, e + 1, Len(c))) = Len(c) - e
            /\ \A i \in 1 .. Len(c) - e : SubSeq(c, e + 1, Len(c))[i] = c[e + i]
            /\ Len(SubSeq(c, 1, s - 1)) = s - 1
            /\ \A i \in 1 .. s - 1 : SubSeq(c, 1, s - 1)[i] = c[i]
<1> DEFINE s == FirstIndex(c, START)
           e == FirstIndex(c, END)
<1>1. Contains(c, END) /\ s < e
  BY DEF WellFenced
<1>2. /\ s \in 1 .. Len(c) /\ e \in 1 .. Len(c) /\ c[s] = START /\ c[e] = END
      /\ \A i \in 1 .. Len(c) : (c[i] = START => s <= i) /\ (c[i] = END => e <= i)
  BY <1>1, FirstOccurrence
<1>3. Len(c) \in Nat
  BY DEF Text
<1> HIDE DEF s, e
<1> DEFINE a == SubSeq(c, 1, s - 1)
           b == SubSeq(c, e + 1, Len(c))
           n == s - 1
           m == e + 1
<1>4. /\ a \in Text /\ Len(a) = s - 1
      /\ \A i \in 1 .. s - 1 : a[i] = c[i]
  <2>1. n \in Nat /\ n <= Len(c) /\ 1 \in Nat \ {0}
    BY <1>2, <1>3
  <2>2. /\ SubSeq(c, 1, n) \in Text
        /\ Len(SubSeq(c, 1, n)) = IF 1 <= n THEN n - 1 + 1 ELSE 0
        /\ \A i \in 1 .. n - 1 + 1 : SubSeq(c, 1, n)[i] = c[1 + i - 1]
    <3> HIDE DEF n
    <3>1. QED
      BY <2>1, PartOfText
  <2> HIDE DEF a
  <2>3. a = SubSeq(c, 1, n)
    BY DEF a
  <2>4. \A i \in 1 .. s - 1 : i \in 1 .. n - 1 + 1 /\ 1 + i - 1 = i
    BY <1>2
  <2>5. \A i \in 1 .. s - 1 : a[i] = c[i]
    BY <2>2, <2>3, <2>4
  <2>6. Len(a) = s - 1
    BY <1>2, <2>2, <2>3
  <2>7. QED
    BY <2>2, <2>3, <2>5, <2>6
<1>5. /\ b \in Text /\ Len(b) = Len(c) - e
      /\ \A i \in 1 .. Len(c) - e : b[i] = c[e + i]
  <2>1. m \in Nat \ {0} /\ Len(c) <= Len(c)
    BY <1>2, <1>3
  <2>2. /\ SubSeq(c, m, Len(c)) \in Text
        /\ Len(SubSeq(c, m, Len(c))) = IF m <= Len(c) THEN Len(c) - m + 1 ELSE 0
        /\ \A i \in 1 .. Len(c) - m + 1 : SubSeq(c, m, Len(c))[i] = c[m + i - 1]
    <3> HIDE DEF m
    <3>1. QED
      BY <1>3, <2>1, PartOfText
  <2> HIDE DEF b
  <2>3. b = SubSeq(c, m, Len(c))
    BY DEF b
  <2>4. \A i \in 1 .. Len(c) - e : i \in 1 .. Len(c) - m + 1 /\ m + i - 1 = e + i
    BY <1>2, <1>3
  <2>5. \A i \in 1 .. Len(c) - e : b[i] = c[e + i]
    BY <2>2, <2>3, <2>4
  <2>6. Len(b) = Len(c) - e
    BY <1>2, <1>3, <2>2, <2>3
  <2>7. QED
    BY <2>2, <2>3, <2>5, <2>6
<1>6. ~Contains(a, START) /\ ~Contains(a, END)
  <2> HIDE DEF a
  <2>1. \A i \in 1 .. s - 1 : i \in 1 .. Len(c) /\ ~(s <= i) /\ ~(e <= i)
    BY <1>1, <1>2, <1>3
  <2>2. QED
    BY <1>2, <1>4, <2>1 DEF Contains
<1>7. QED
  BY <1>1, <1>2, <1>3, <1>4, <1>5, <1>6 DEF s, e

\* upsertSection keeps what is outside the block and leaves one block.
LEMMA UpsertKeeps ==
  ASSUME NEW c \in Text, WellFenced(c)
  PROVE  /\ UpsertSection(c) \in Text /\ WellFenced(UpsertSection(c))
         /\ UserText(UpsertSection(c)) = UserText(c) /\ HasBlock(UpsertSection(c))
<1>1. CASE Contains(c, START)
  <2> DEFINE a == SubSeq(c, 1, FirstIndex(c, START) - 1)
             b == SubSeq(c, FirstIndex(c, END) + 1, Len(c))
             t == (a \o BuffyBlock) \o b
  <2>1. /\ a \in Text /\ b \in Text /\ ~Contains(a, START) /\ ~Contains(a, END)
        /\ Contains(c, END)
    BY <1>1, FencedParts
  <2>2. UpsertSection(c) = t
    BY <1>1, <2>1 DEF UpsertSection, BlockEnd
  <2>3. UserText(c) = a \o b
    BY <1>1 DEF UserText
  <2> HIDE DEF a, b
  <2>4. t \in Text /\ Framed(t, a, b)
    BY <2>1, FramedText
  <2> HIDE DEF t
  <2>5. QED
    BY <2>1, <2>2, <2>3, <2>4, FramedMeaning
<1>2. CASE ~Contains(c, START)
  <2> DEFINE t == (c \o BuffyBlock) \o <<>>
  <2>1. ~Contains(c, END)
    BY <1>2 DEF WellFenced
  <2>2. c \o BuffyBlock \in Text
    BY BlockText, JoinedText
  <2>3. t = c \o BuffyBlock /\ c \o <<>> = c
    BY <2>2, ConcatEmptySeq DEF Text
  <2>4. <<>> \in Text
    BY DEF Text
  <2>5. t \in Text /\ Framed(t, c, <<>>)
    BY <2>4, FramedText
  <2>6. UserText(c) = c
    BY <1>2 DEF UserText
  <2>7. UpsertSection(c) = t
    BY <1>2, <2>3 DEF UpsertSection
  <2> HIDE DEF t
  <2>8. WellFenced(t) /\ UserText(t) = c \o <<>> /\ HasBlock(t)
    BY <1>2, <2>1, <2>4, <2>5, FramedMeaning
  <2>9. QED
    BY <2>3, <2>5, <2>6, <2>7, <2>8
<1>3. QED
  BY <1>1, <1>2

LEMMA AppendedText ==
  ASSUME NEW c \in Text, NEW p \in Piece
  PROVE  /\ Append(c, p) \in Text /\ Len(Append(c, p)) = Len(c) + 1 /\ Len(c) \in Nat
         /\ \A i \in 1 .. Len(c) : Append(c, p)[i] = c[i]
         /\ Append(c, p)[Len(c) + 1] = p
<1>1. c \in Seq(Piece) /\ Len(c) \in Nat
  BY DEF Text
<1>2. QED
  BY <1>1, AppendProperties DEF Text

\* What the user adds at the end leaves the blocks where they are.
LEMMA AppendKeeps ==
  ASSUME NEW c \in Text, NEW p \in Piece, p # START, p # END
  PROVE  /\ WellFenced(c) => WellFenced(Append(c, p)) /\ UserText(Append(c, p)) = Append(UserText(c), p)
         /\ HasBlock(c) => HasBlock(Append(c, p))
<1> DEFINE t == Append(c, p)
<1>1. /\ t \in Text /\ Len(t) = Len(c) + 1 /\ Len(c) \in Nat
      /\ \A i \in 1 .. Len(c) : t[i] = c[i]
      /\ t[Len(c) + 1] = p
  BY AppendedText
<1> HIDE DEF t
<1>2. \A m \in {START, END} : Contains(t, m) <=> Contains(c, m)
  <2>1. \A i \in 1 .. Len(t) : i \in 1 .. Len(c) \/ i = Len(c) + 1
    BY <1>1
  <2>2. \A i \in 1 .. Len(c) : i \in 1 .. Len(t)
    BY <1>1
  <2>3. QED
    BY <1>1, <2>1, <2>2 DEF Contains
<1>3. ASSUME WellFenced(c), ~Contains(c, START)
      PROVE  WellFenced(t) /\ UserText(t) = Append(UserText(c), p)
  <2>1. ~Contains(c, END)
    BY <1>3 DEF WellFenced
  <2>2. ~Contains(t, START) /\ ~Contains(t, END)
    BY <1>2, <1>3, <2>1
  <2>3. UserText(t) = t /\ UserText(c) = c
    BY <1>3, <2>2 DEF UserText
  <2>4. QED
    BY <2>2, <2>3 DEF WellFenced, t
<1>4. ASSUME WellFenced(c), Contains(c, START)
      PROVE  WellFenced(t) /\ UserText(t) = Append(UserText(c), p)
  <2> DEFINE s == FirstIndex(c, START)
             e == FirstIndex(c, END)
             a == SubSeq(c, 1, s - 1)
             b == SubSeq(c, e + 1, Len(c))
             ta == SubSeq(t, 1, s - 1)
             tb == SubSeq(t, e + 1, Len(t))
  <2>1. /\ s \in 1 .. Len(c) /\ e \in 1 .. Len(c) /\ s < e
        /\ c[s] = START /\ c[e] = END
        /\ \A i \in 1 .. Len(c) : (c[i] = START => s <= i) /\ (c[i] = END => e <= i)
        /\ a \in Text /\ b \in Text
        /\ Len(b) = Len(c) - e /\ Len(a) = s - 1
        /\ \A i \in 1 .. Len(c) - e : b[i] = c[e + i]
        /\ \A i \in 1 .. s - 1 : a[i] = c[i]
    BY <1>4, FencedParts
  <2>2. UserText(c) = a \o b
    BY <1>4 DEF UserText
  <2> HIDE DEF s, e
  <2>3. FirstIndex(t, START) = s /\ Contains(t, START)
    <3>1. s \in 1 .. Len(t) /\ t[s] = START
      BY <1>1, <2>1
    <3>2. \A i \in 1 .. Len(t) : t[i] = START => s <= i
      BY <1>1, <2>1
    <3>3. QED
      BY <1>1, <3>1, <3>2, FirstIsUnique
  <2>4. FirstIndex(t, END) = e /\ Contains(t, END)
    <3>1. e \in 1 .. Len(t) /\ t[e] = END
      BY <1>1, <2>1
    <3>2. \A i \in 1 .. Len(t) : t[i] = END => e <= i
      BY <1>1, <2>1
    <3>3. QED
      BY <1>1, <3>1, <3>2, FirstIsUnique
  <2>5. WellFenced(t)
    BY <2>1, <2>3, <2>4 DEF WellFenced
  <2>6. /\ ta \in Text /\ tb \in Text
        /\ Len(tb) = Len(t) - e /\ Len(ta) = s - 1
        /\ \A i \in 1 .. Len(t) - e : tb[i] = t[e + i]
        /\ \A i \in 1 .. s - 1 : ta[i] = t[i]
    BY <1>1, <2>3, <2>4, <2>5, FencedParts
  <2>7. UserText(t) = ta \o tb
    BY <2>3, <2>4, <2>5 DEF UserText
  <2> HIDE DEF a, b, ta, tb
  <2>8. ta = a
    <3>1. \A i \in 1 .. s - 1 : i \in 1 .. Len(c)
      BY <1>1, <2>1
    <3>2. \A i \in 1 .. Len(ta) : ta[i] = a[i]
      BY <1>1, <2>1, <2>6, <3>1
    <3>3. QED
      BY <2>1, <2>6, <3>2, SameText
  <2> DEFINE bp == Append(b, p)
             ab == a \o b
             abp == Append(ab, p)
             atb == a \o bp
  <2>9. /\ bp \in Text /\ Len(bp) = Len(b) + 1
        /\ \A i \in 1 .. Len(b) : bp[i] = b[i]
        /\ bp[Len(b) + 1] = p
    BY <2>1, AppendedText
  <2>10. tb = bp
    <3> HIDE DEF bp
    <3>1. Len(tb) = Len(bp)
      BY <1>1, <2>1, <2>6, <2>9
    <3>2. ASSUME NEW i \in 1 .. Len(tb) PROVE tb[i] = bp[i]
      <4>1. i \in 1 .. Len(t) - e /\ tb[i] = t[e + i]
        BY <2>6, <3>2
      <4>2. CASE i = Len(b) + 1
        <5>1. e + i = Len(c) + 1
          BY <1>1, <2>1, <4>2
        <5>2. QED
          BY <1>1, <2>9, <4>1, <4>2, <5>1
      <4>3. CASE i # Len(b) + 1
        <5>1. i \in 1 .. Len(b) /\ i \in 1 .. Len(c) - e /\ e + i \in 1 .. Len(c)
          BY <1>1, <2>1, <4>1, <4>3
        <5>2. QED
          BY <1>1, <2>1, <2>9, <4>1, <5>1
      <4>4. QED
        BY <4>2, <4>3
    <3>3. QED
      BY <2>6, <2>9, <3>1, <3>2, SameText
  <2>11. /\ ab \in Text /\ Len(ab) = Len(a) + Len(b)
         /\ \A i \in 1 .. Len(a) : ab[i] = a[i]
         /\ \A i \in 1 .. Len(b) : ab[Len(a) + i] = b[i]
         /\ Len(a) \in Nat /\ Len(b) \in Nat
    BY <2>1, JoinedText
  <2> HIDE DEF bp, ab
  <2>12. /\ abp \in Text /\ Len(abp) = Len(ab) + 1
         /\ \A i \in 1 .. Len(ab) : abp[i] = ab[i]
         /\ abp[Len(ab) + 1] = p
    BY <2>11, AppendedText
  <2>13. /\ atb \in Text /\ Len(atb) = Len(a) + Len(bp)
         /\ \A i \in 1 .. Len(a) : atb[i] = a[i]
         /\ \A i \in 1 .. Len(bp) : atb[Len(a) + i] = bp[i]
    BY <2>1, <2>9, JoinedText
  <2> HIDE DEF abp, atb
  <2>14. atb = abp
    <3>1. Len(atb) = Len(abp)
      BY <2>9, <2>11, <2>12, <2>13
    <3>2. ASSUME NEW i \in 1 .. Len(atb) PROVE atb[i] = abp[i]
      <4>1. CASE i <= Len(a)
        <5>1. i \in 1 .. Len(a) /\ i \in 1 .. Len(ab)
          BY <2>11, <4>1, <3>2
        <5>2. QED
          BY <2>11, <2>12, <2>13, <5>1
      <4>2. CASE i > Len(a)
        <5> DEFINE j == i - Len(a)
        <5>1. j \in 1 .. Len(b) + 1 /\ i = Len(a) + j /\ j \in 1 .. Len(bp)
          BY <2>9, <2>11, <2>13, <3>2, <4>2
        <5> HIDE DEF j
        <5>2. atb[i] = bp[j]
          BY <2>13, <5>1
        <5>3. CASE j = Len(b) + 1
          <6>1. i = Len(ab) + 1
            BY <2>11, <5>1, <5>3
          <6>2. QED
            BY <2>9, <2>12, <5>2, <5>3, <6>1
        <5>4. CASE j # Len(b) + 1
          <6>1. j \in 1 .. Len(b) /\ i \in 1 .. Len(ab)
            BY <2>11, <5>1, <5>4
          <6>2. QED
            BY <2>9, <2>11, <2>12, <5>1, <5>2, <6>1
        <5>5. QED
          BY <5>3, <5>4
      <4>3. QED
        BY <2>11, <3>2, <4>1, <4>2
    <3>3. QED
      BY <2>12, <2>13, <3>1, <3>2, SameText
  <2>15. UserText(t) = atb
    BY <2>7, <2>8, <2>10 DEF atb
  <2>16. Append(UserText(c), p) = abp
    BY <2>2 DEF abp, ab
  <2>17. QED
    BY <2>5, <2>14, <2>15, <2>16
<1>5. ASSUME HasBlock(c) PROVE HasBlock(t)
  <2>1. PICK n \in 0 .. Len(c) - 3 : SubSeq(c, n + 1, n + 3) = BuffyBlock
    BY <1>5 DEF HasBlock
  <2> DEFINE k == n + 1
             l == n + 3
             cs == SubSeq(c, k, l)
             ts == SubSeq(t, k, l)
  <2>2. k \in Nat \ {0} /\ l \in Nat /\ l <= Len(c) /\ l <= Len(t) /\ k <= l
        /\ n \in 0 .. Len(t) - 3
    BY <1>1
  <2> HIDE DEF k, l
  <2>3. /\ cs \in Text /\ ts \in Text /\ Len(cs) = l - k + 1 /\ Len(ts) = l - k + 1
        /\ \A i \in 1 .. l - k + 1 : cs[i] = c[k + i - 1] /\ ts[i] = t[k + i - 1]
    BY <1>1, <2>2, PartOfText
  <2> HIDE DEF cs, ts
  <2>4. \A i \in 1 .. l - k + 1 : k + i - 1 \in 1 .. Len(c)
    BY <1>1, <2>2
  <2>5. \A i \in 1 .. Len(cs) : cs[i] = ts[i]
    BY <1>1, <2>3, <2>4
  <2>6. cs = ts
    BY <2>3, <2>5, SameText
  <2>7. QED
    BY <2>1, <2>2, <2>6 DEF HasBlock, cs, ts, k, l
<1>6. QED
  BY <1>3, <1>4, <1>5 DEF t

LEMMA UpsertIsText ==
  ASSUME NEW c \in Text
  PROVE  UpsertSection(c) \in Text
<1>1. BuffyBlock \in Text /\ Len(BuffyBlock) = 3 /\ Len(c) \in Nat
  BY BlockText DEF Text
<1>2. CASE Contains(c, START)
  <2> DEFINE n == FirstIndex(c, START) - 1
             m == BlockEnd(c) + 1
             a == SubSeq(c, 1, n)
             b == SubSeq(c, m, Len(c))
  <2>1. FirstIndex(c, START) \in 1 .. Len(c)
    BY <1>2, FirstOccurrence
  <2>2. Contains(c, END) => FirstIndex(c, END) \in 1 .. Len(c)
    BY FirstOccurrence
  <2>3. n \in Nat /\ n <= Len(c) /\ 1 \in Nat \ {0}
    BY <1>1, <2>1
  <2>4. m \in Nat \ {0}
    BY <1>1, <2>1, <2>2 DEF BlockEnd
  <2>5. a \in Text /\ b \in Text
    <3> HIDE DEF n, m
    <3>1. QED
      BY <1>1, <2>3, <2>4, PartOfText
  <2> HIDE DEF a, b
  <2>6. (a \o BuffyBlock) \o b \in Text
    BY <1>1, <2>5, JoinedText
  <2>7. QED
    BY <1>2, <2>6 DEF UpsertSection, a, b
<1>3. CASE ~Contains(c, START)
  BY <1>1, <1>3, JoinedText DEF UpsertSection
<1>4. QED
  BY <1>2, <1>3

LEMMA UserTextIsText ==
  ASSUME NEW c \in Text
  PROVE  UserText(c) \in Text
<1>1. CASE WellFenced(c) /\ Contains(c, START)
  <2>1. /\ SubSeq(c, 1, FirstIndex(c, START) - 1) \in Text
        /\ SubSeq(c, FirstIndex(c, END) + 1, Len(c)) \in Text
    BY <1>1, FencedParts
  <2>2. QED
    BY <1>1, <2>1, JoinedText DEF UserText
<1>2. CASE ~(WellFenced(c) /\ Contains(c, START))
  BY <1>2 DEF UserText
<1>3. QED
  BY <1>1, <1>2

-----------------------------------------------------------------------------
(* The installation.                                                         *)

ConfigFile == [form : Form, servers : SUBSET Server]

InstallTypeOK ==
  /\ files \in [config : ConfigFile, guide : Text, tool : BOOLEAN, instructions : BOOLEAN]
  /\ files.config.form = "missing" => files.config.servers = {}
  /\ owed \in [config : SUBSET Server, guide : Text]
  /\ rewriting # <<>> => rewriting[1] \in ConfigFile /\ rewriting[1].form = "object"
  /\ current \in 1 .. 5
  /\ phase \in {"read", "cut", "fill"}
  /\ phase # "read" => current \in 1 .. 4
  /\ pc # "installing" => current = 1 /\ phase = "read"

Done == pc = "ended" /\ exitCode = "0" /\ Installs

\* What is in memory keeps what others have, as long as none of them came after the
\* reading; so the file keeps it when it is filled.  What another program is about to
\* fill in keeps it too, and keeps Buffy when it read the list after Buffy wrote it.
ConfigInv ==
  /\ \/ "config" \in excused \/ (current = 1 /\ phase = "fill") \/ BeingRewritten
     \/ owed.config \subseteq files.config.servers
  /\ current = 1 /\ phase = "fill" => "config" \in excused \/ files.config = EmptyConfig
  /\ current = 1 /\ phase # "read" =>
       /\ held[1] \in ConfigFile /\ held[1].form \in Unlisted \cup {"object"}
       /\ \/ "config" \in excused
          \/ /\ owed.config \subseteq held[1].servers
             /\ held[1].form \in Unlisted \/ Buffy \in held[1].servers
  /\ rewriting # <<>> => "config" \in excused \/ owed.config \subseteq rewriting[1].servers
  /\ current > 1 \/ Done => "config" \in excused \/ BeingRewritten \/ Registered
  /\ (current > 1 \/ Done) /\ BeingRewritten =>
       "config" \in excused \/ Buffy \in rewriting[1].servers

GuideInv ==
  /\ \/ "guide" \in excused \/ (current = 2 /\ phase = "fill")
     \/ WellFenced(files.guide) /\ UserText(files.guide) = owed.guide
  /\ current = 2 /\ phase # "read" =>
       /\ held[1] \in Text
       /\ \/ "guide" \in excused
          \/ WellFenced(held[1]) /\ UserText(held[1]) = owed.guide /\ HasBlock(held[1])
  /\ current > 2 \/ Done => "guide" \in excused \/ HasBlock(files.guide)

OwnFilesInv ==
  /\ current \in {3, 4} /\ phase # "read" => held[1] = TRUE
  /\ current > 3 \/ Done => files.tool
  /\ current > 4 \/ Done => files.instructions

InstallInv == InstallTypeOK /\ ConfigInv /\ GuideInv /\ OwnFilesInv

LEMMA Files ==
  /\ DOMAIN FileOrder = 1 .. 4 /\ Len(FileOrder) = 4
  /\ current = 1 => File = "config"
  /\ current = 2 => File = "guide"
  /\ current = 3 => File = "tool"
  /\ current = 4 => File = "instructions"
BY DEF File, FileOrder

LEMMA InstallInitInv == SessionInit => InstallInv
<1> SUFFICES ASSUME SessionInit PROVE InstallInv
  OBVIOUS
<1>1. PICK config \in Configs, guide \in Guides :
        /\ files = [config |-> config, guide |-> guide, tool |-> FALSE, instructions |-> FALSE]
        /\ owed = [config |-> config.servers, guide |-> UserText(guide)]
        /\ excused = IF WellFenced(guide) THEN {} ELSE {"guide"}
  BY DEF SessionInit, InstallInit
<1>2. current = 1 /\ phase = "read" /\ pc = "started"
  BY DEF SessionInit, InstallInit, CliInit
<1>3. config \in ConfigFile /\ guide \in Text
  BY InstallerAssumption DEF ConfigFile, Text
<1> rewriting = <<>>
  BY DEF SessionInit, InstallInit
<1> config.form = "missing" => config.servers = {}
  BY InstallerAssumption
<1>4. UserText(guide) \in Text /\ config.servers \in SUBSET Server
  BY <1>3, UserTextIsText DEF ConfigFile
<1>5. InstallTypeOK
  BY <1>1, <1>2, <1>3, <1>4 DEF InstallTypeOK
<1>6. ConfigInv
  BY <1>1, <1>2 DEF ConfigInv, Done
<1>7. GuideInv
  BY <1>1, <1>2 DEF GuideInv, Done
<1>8. OwnFilesInv
  BY <1>2 DEF OwnFilesInv, Done
<1>9. QED
  BY <1>5, <1>6, <1>7, <1>8 DEF InstallInv

\* The steps of a session, as far as the files go.
Quiet ==
  /\ UNCHANGED installVars
  /\ Installs' <=> Installs
  /\ Done' => Done
  /\ pc' # "installing" => pc # "installing"
Working == pc = "installing" /\ InstallStep /\ pc' = pc /\ UNCHANGED exitCode /\ (Installs' <=> Installs)
Stopping == StopInstalling /\ (Done' => current = 5)
Outside == OthersStep /\ UNCHANGED <<pc, exitCode>> /\ (Installs' <=> Installs)

LEMMA SessionSteps ==
  ASSUME ProcessInv, InstallTypeOK, [Next]_vars
  PROVE  Quiet \/ Working \/ Stopping \/ Outside
<1>1. args' = args
  BY DEF Next, OwnStep, RunProcess, Begin, Write, Report, WriteFails, Signalled, CallAgain, Others,
         ProcessStep, RunCommand, SpawnScript, SpawnFails, InstallHandlers, Close,
         Forward, StartInstalling, EndInstalling, ReceiveSignal, GroupStep, StartHelper,
         HelperExits, ScriptExits, DiesOfSignal, vars, processVars
<1>2. (Delegates' <=> Delegates) /\ (Installs' <=> Installs)
  BY <1>1, ArgsDecide
<1>3. Installs => ~Delegates /\ ExitOf(FALSE) = "1"
  BY InstallsAlone
<1>4. pc \in {"spawned", "waiting"} => Delegates
  BY DEF ProcessInv, Delegation
<1>5. pc = "installing" => Installs
  BY DEF ProcessInv, Delegation
<1>6. CASE RunProcess
  <2>1. UNCHANGED installVars
    BY <1>6 DEF RunProcess
  <2>2. pc # "installing"
    BY <1>6 DEF RunProcess, ProcessStep, RunCommand, SpawnScript, SpawnFails, InstallHandlers,
                Close, Forward
  <2>3. ASSUME NEW well \in BOOLEAN, RunCommand(well) PROVE ~Done'
    <3>1. CASE Installs
      BY <1>3, <2>3, <3>1 DEF RunCommand, End, Done
    <3>2. CASE ~Installs
      BY <1>2, <3>2 DEF Done
    <3>3. QED
      BY <3>1, <3>2
  <2>4. SpawnScript \/ SpawnFails \/ InstallHandlers \/ Close \/ (\E s \in Signal : Forward(s))
          => ~Done'
    BY <1>2, <1>3, <1>4
    DEF SpawnScript, SpawnFails, InstallHandlers, Close, Forward, Done
  <2>5. ~Done'
    BY <1>6, <2>3, <2>4 DEF RunProcess, ProcessStep
  <2>6. QED
    BY <1>2, <2>1, <2>2, <2>5 DEF Quiet
<1>7. CASE Begin
  BY <1>2, <1>7 DEF Begin, StartInstalling, Quiet, Done
<1>8. CASE Write
  BY <1>2, <1>8 DEF Write, processVars, Working
<1>9. CASE Report
  <2>1. current = 5
    BY <1>9, Files DEF Report, InstallTypeOK
  <2>2. QED
    BY <1>9, <2>1 DEF Report, Stopping
<1>10. CASE WriteFails
  BY <1>10 DEF WriteFails, EndInstalling, End, Stopping, Done
<1>11. ASSUME NEW s \in Signal, Signalled(s) PROVE Quiet \/ Stopping
  <2>1. Done' => Done
    BY <1>2, <1>11 DEF Signalled, ReceiveSignal, End, Done, Signal
  <2>2. CASE pc = "installing"
    BY <1>11, <2>1, <2>2 DEF Signalled, Stopping, Done
  <2>3. CASE pc # "installing"
    BY <1>2, <1>11, <2>1, <2>3 DEF Signalled, Quiet
  <2>4. QED
    BY <2>2, <2>3
<1>12. CASE GroupStep /\ UNCHANGED <<installVars, calls>>
  <2>1. UNCHANGED <<pc, exitCode>>
    BY <1>12 DEF GroupStep, StartHelper, HelperExits, ScriptExits, DiesOfSignal
  <2>2. QED
    BY <1>2, <1>12, <2>1 DEF Quiet, Done
<1>13. CASE CallAgain
  BY <1>2, <1>13 DEF CallAgain, Quiet, Done, installVars
<1>14. CASE Others
  BY <1>2, <1>14 DEF Others, processVars, Outside
<1>15. CASE UNCHANGED vars
  BY <1>2, <1>15 DEF vars, processVars, Quiet, Done
<1>16. QED
  BY <1>6, <1>7, <1>8, <1>9, <1>10, <1>11, <1>12, <1>13, <1>14, <1>15 DEF Next, OwnStep

LEMMA QuietKeeps ==
  ASSUME InstallInv, Quiet
  PROVE  InstallInv'
<1>1. UNCHANGED installVars /\ (Done' => Done) /\ (pc' # "installing" => pc # "installing")
  BY DEF Quiet
<1>2. InstallTypeOK'
  BY <1>1 DEF InstallInv, InstallTypeOK, installVars
<1>3. ConfigInv'
  BY <1>1 DEF InstallInv, ConfigInv, Registered, BeingRewritten, installVars
<1>4. GuideInv'
  <2>1. GuideInv
    BY DEF InstallInv
  <2>2. QED
    BY <1>1, <2>1 DEF GuideInv, installVars, WellFenced, UserText, HasBlock
<1>5. OwnFilesInv'
  BY <1>1 DEF InstallInv, OwnFilesInv, installVars
<1>6. QED
  BY <1>2, <1>3, <1>4, <1>5 DEF InstallInv

LEMMA StoppingKeeps ==
  ASSUME InstallInv, Stopping
  PROVE  InstallInv'
<1>1. /\ excused' = IF phase = "fill" THEN excused \cup {File} ELSE excused
      /\ current' = 1 /\ phase' = "read"
      /\ UNCHANGED <<files, owed, rewriting>>
      /\ Done' => current = 5
  BY DEF Stopping, StopInstalling
<1>2. InstallTypeOK'
  BY <1>1 DEF InstallInv, InstallTypeOK
<1>3. excused \subseteq excused'
  BY <1>1
<1>4. /\ current = 1 /\ phase = "fill" => "config" \in excused'
      /\ current = 2 /\ phase = "fill" => "guide" \in excused'
  BY <1>1, Files
<1>5. ConfigInv'
  BY <1>1, <1>3, <1>4 DEF InstallInv, ConfigInv, Registered, BeingRewritten
<1>6. GuideInv'
  BY <1>1, <1>3, <1>4 DEF InstallInv, GuideInv
<1>7. OwnFilesInv'
  BY <1>1 DEF InstallInv, OwnFilesInv
<1>8. QED
  BY <1>2, <1>5, <1>6, <1>7 DEF InstallInv

\* What is put together in memory keeps what was in the file.
LEMMA ReadingKeeps ==
  ASSUME InstallInv, Working, ReadFile
  PROVE  InstallInv'
<1>1. /\ current \in 1 .. 4 /\ phase = "read" /\ held' = <<NewContent>> /\ phase' = "cut"
      /\ UNCHANGED <<files, current, owed, rewriting>>
      /\ excused \subseteq excused' /\ excused' \subseteq excused \cup {"config"}
      /\ current = 1 => /\ files.config.form # "scalar"
                        /\ files.config.form = "broken" => "config" \in excused' \/ owed.config = {}
      /\ pc = "installing" /\ pc' = "installing"
  BY Files DEF ReadFile, Working, Rejects
<1>2. held'[1] = NewContent
  BY <1>1
<1>3. Done' => Done
  BY DEF Working, Done
<1>4. InstallTypeOK'
  BY <1>1 DEF InstallInv, InstallTypeOK
<1>5. ConfigInv'
  <2>1. CASE current = 1
    <3>1. NewContent = Merged(files.config)
      BY <2>1, Files DEF NewContent
    <3>2. files.config \in ConfigFile /\ Buffy \in Server
      BY DEF InstallInv, InstallTypeOK, Server
    <3>3. /\ Merged(files.config) \in ConfigFile
          /\ Merged(files.config).form \in Unlisted \cup {"object"}
          /\ Merged(files.config).form \in Unlisted \/ Buffy \in Merged(files.config).servers
      BY <1>1, <2>1, <3>2 DEF Merged, Config, ConfigFile, Unlisted, Form
    <3>4. files.config.form # "broken" => files.config.servers \subseteq Merged(files.config).servers
      BY <1>1, <2>1, <3>2
      DEF Merged, Config, ConfigFile, Unlisted, Form, InstallInv, InstallTypeOK
    <3>5. "config" \in excused' \/ owed.config \subseteq Merged(files.config).servers
      <4>1. "config" \in excused \/ BeingRewritten \/ owed.config \subseteq files.config.servers
        BY <1>1 DEF InstallInv, ConfigInv
      <4>2. BeingRewritten => files.config.form = "broken"
        BY DEF BeingRewritten, EmptyConfig, Config
      <4>3. QED
        BY <1>1, <2>1, <3>4, <4>1, <4>2
    <3>6. ~Done' /\ current' = 1 /\ phase' = "cut"
      BY <1>1, <2>1 DEF Done
    <3>7. \/ "config" \in excused' \/ BeingRewritten' \/ owed'.config \subseteq files'.config.servers
      BY <1>1 DEF InstallInv, ConfigInv, BeingRewritten
    <3>8. rewriting' # <<>> =>
            "config" \in excused' \/ owed'.config \subseteq rewriting'[1].servers
      BY <1>1 DEF InstallInv, ConfigInv
    <3>9. QED
      BY <1>1, <1>2, <3>1, <3>3, <3>5, <3>6, <3>7, <3>8 DEF ConfigInv
  <2>2. CASE current # 1
    BY <1>1, <1>3, <2>2 DEF InstallInv, ConfigInv, Registered, BeingRewritten
  <2>3. QED
    BY <2>1, <2>2
<1>6. GuideInv'
  <2>1. GuideInv /\ files.guide \in Text
    BY DEF InstallInv, InstallTypeOK
  <2>2. CASE current = 2
    <3>1. NewContent = UpsertSection(files.guide)
      BY <2>2, Files DEF NewContent
    <3>2. WellFenced(files.guide) =>
            /\ UpsertSection(files.guide) \in Text /\ WellFenced(UpsertSection(files.guide))
            /\ UserText(UpsertSection(files.guide)) = UserText(files.guide)
            /\ HasBlock(UpsertSection(files.guide))
      BY <2>1, UpsertKeeps
    <3>3. UpsertSection(files.guide) \in Text
      BY <2>1, UpsertIsText
    <3>4. QED
      BY <1>1, <1>2, <1>3, <2>1, <2>2, <3>1, <3>2, <3>3 DEF GuideInv
  <2>3. CASE current # 2
    BY <1>1, <1>3, <2>1, <2>3 DEF GuideInv
  <2>4. QED
    BY <2>2, <2>3
<1>7. OwnFilesInv'
  <2>1. current \in {3, 4} => NewContent = TRUE
    BY Files DEF NewContent
  <2>2. QED
    BY <1>1, <1>2, <1>3, <2>1 DEF InstallInv, OwnFilesInv
<1>8. QED
  BY <1>4, <1>5, <1>6, <1>7 DEF InstallInv

LEMMA CuttingKeeps ==
  ASSUME InstallInv, Working, CutFile
  PROVE  InstallInv'
<1>1. /\ current \in 1 .. 4 /\ phase = "cut" /\ phase' = "fill"
      /\ files' = [files EXCEPT ![File] = Emptied]
      /\ UNCHANGED <<current, held, owed, rewriting, excused>>
      /\ pc = "installing" /\ pc' = "installing"
  BY DEF CutFile, Working, InstallInv, InstallTypeOK
<1>2. ~Done'
  BY <1>1 DEF Done
<1>3. files \in [config : ConfigFile, guide : Text, tool : BOOLEAN, instructions : BOOLEAN]
  BY DEF InstallInv, InstallTypeOK
<1>4. CASE current = 1
  <2>1. files' = [files EXCEPT !["config"] = EmptyConfig]
    BY <1>1, <1>4, Files DEF Emptied
  <2>2. EmptyConfig \in ConfigFile /\ EmptyConfig.form = "broken"
    BY DEF Config, ConfigFile, EmptyConfig, Form
  <2>3. files' \in [config : ConfigFile, guide : Text, tool : BOOLEAN, instructions : BOOLEAN]
        /\ files'.guide = files.guide /\ files'.config = EmptyConfig
    BY <1>3, <2>1, <2>2
  <2>4. InstallTypeOK'
    BY <1>1, <2>2, <2>3 DEF InstallInv, InstallTypeOK
  <2>5. ConfigInv'
    BY <1>1, <1>2, <1>4, <2>3 DEF InstallInv, ConfigInv
  <2>6. GuideInv'
    BY <1>1, <1>2, <1>4, <2>3 DEF InstallInv, GuideInv
  <2>7. OwnFilesInv'
    BY <1>1, <1>2, <1>4 DEF InstallInv, OwnFilesInv
  <2>8. QED
    BY <2>4, <2>5, <2>6, <2>7 DEF InstallInv
<1>5. CASE current = 2
  <2>1. files' = [files EXCEPT !["guide"] = <<>>]
    BY <1>1, <1>5, Files DEF Emptied
  <2>2. <<>> \in Text
    BY DEF Text
  <2>3. files' \in [config : ConfigFile, guide : Text, tool : BOOLEAN, instructions : BOOLEAN]
        /\ files'.config = files.config
    BY <1>3, <2>1, <2>2
  <2>4. InstallTypeOK'
    BY <1>1, <2>3 DEF InstallInv, InstallTypeOK
  <2>5. ConfigInv'
    BY <1>1, <1>2, <1>5, <2>3 DEF InstallInv, ConfigInv, Registered, BeingRewritten
  <2>6. GuideInv'
    BY <1>1, <1>2, <1>5 DEF InstallInv, GuideInv
  <2>7. OwnFilesInv'
    BY <1>1, <1>2, <1>5 DEF InstallInv, OwnFilesInv
  <2>8. QED
    BY <2>4, <2>5, <2>6, <2>7 DEF InstallInv
<1>6. CASE current = 3
  <2>1. files' = [files EXCEPT !["tool"] = FALSE]
    BY <1>1, <1>6, Files DEF Emptied
  <2>2. files' \in [config : ConfigFile, guide : Text, tool : BOOLEAN, instructions : BOOLEAN]
        /\ files'.config = files.config /\ files'.guide = files.guide
    BY <1>3, <2>1
  <2>3. InstallTypeOK'
    BY <1>1, <2>2 DEF InstallInv, InstallTypeOK
  <2>4. ConfigInv'
    BY <1>1, <1>2, <1>6, <2>2 DEF InstallInv, ConfigInv, Registered, BeingRewritten
  <2>5. GuideInv'
    BY <1>1, <1>2, <1>6, <2>2 DEF InstallInv, GuideInv
  <2>6. OwnFilesInv'
    BY <1>1, <1>2, <1>6 DEF InstallInv, OwnFilesInv
  <2>7. QED
    BY <2>3, <2>4, <2>5, <2>6 DEF InstallInv
<1>7. CASE current = 4
  <2>1. files' = [files EXCEPT !["instructions"] = FALSE]
    BY <1>1, <1>7, Files DEF Emptied
  <2>2. files' \in [config : ConfigFile, guide : Text, tool : BOOLEAN, instructions : BOOLEAN]
        /\ files'.config = files.config /\ files'.guide = files.guide /\ files'.tool = files.tool
    BY <1>3, <2>1
  <2>3. InstallTypeOK'
    BY <1>1, <2>2 DEF InstallInv, InstallTypeOK
  <2>4. ConfigInv'
    BY <1>1, <1>2, <1>7, <2>2 DEF InstallInv, ConfigInv, Registered, BeingRewritten
  <2>5. GuideInv'
    BY <1>1, <1>2, <1>7, <2>2 DEF InstallInv, GuideInv
  <2>6. OwnFilesInv'
    BY <1>1, <1>2, <1>7, <2>2 DEF InstallInv, OwnFilesInv
  <2>7. QED
    BY <2>3, <2>4, <2>5, <2>6 DEF InstallInv
<1>8. QED
  BY <1>1, <1>4, <1>5, <1>6, <1>7

LEMMA FillingKeeps ==
  ASSUME InstallInv, Working, FillFile
  PROVE  InstallInv'
<1>1. /\ current \in 1 .. 4 /\ phase = "fill" /\ phase' = "read"
      /\ files' = [files EXCEPT ![File] = held[1]]
      /\ current' = current + 1
      /\ UNCHANGED <<owed, rewriting, excused>>
      /\ pc = "installing" /\ pc' = "installing"
  BY DEF FillFile, Working, InstallInv, InstallTypeOK
<1>2. ~Done'
  BY <1>1 DEF Done
<1>3. files \in [config : ConfigFile, guide : Text, tool : BOOLEAN, instructions : BOOLEAN]
  BY DEF InstallInv, InstallTypeOK
<1>4. CASE current = 1
  <2>1. files' = [files EXCEPT !["config"] = held[1]]
    BY <1>1, <1>4, Files
  <2>2. /\ held[1] \in ConfigFile /\ held[1].form \notin {"missing", "broken"}
        /\ held[1] # EmptyConfig
    BY <1>1, <1>4 DEF InstallInv, ConfigInv, EmptyConfig, Config, Unlisted
  <2>3. files' \in [config : ConfigFile, guide : Text, tool : BOOLEAN, instructions : BOOLEAN]
        /\ files'.guide = files.guide /\ files'.config = held[1]
    BY <1>3, <2>1, <2>2
  <2>4. InstallTypeOK'
    BY <1>1, <2>2, <2>3 DEF InstallInv, InstallTypeOK
  <2>5. ConfigInv'
    BY <1>1, <1>2, <1>4, <2>2, <2>3 DEF InstallInv, ConfigInv, Registered, BeingRewritten
  <2>6. GuideInv'
    BY <1>1, <1>2, <1>4, <2>3 DEF InstallInv, GuideInv
  <2>7. OwnFilesInv'
    BY <1>1, <1>2, <1>4 DEF InstallInv, OwnFilesInv
  <2>8. QED
    BY <2>4, <2>5, <2>6, <2>7 DEF InstallInv
<1>5. CASE current = 2
  <2>1. files' = [files EXCEPT !["guide"] = held[1]]
    BY <1>1, <1>5, Files
  <2>2. held[1] \in Text
    BY <1>1, <1>5 DEF InstallInv, GuideInv
  <2>3. files' \in [config : ConfigFile, guide : Text, tool : BOOLEAN, instructions : BOOLEAN]
        /\ files'.config = files.config /\ files'.guide = held[1]
    BY <1>3, <2>1, <2>2
  <2>4. InstallTypeOK'
    BY <1>1, <2>3 DEF InstallInv, InstallTypeOK
  <2>5. ConfigInv'
    BY <1>1, <1>2, <1>5, <2>3 DEF InstallInv, ConfigInv, Registered, BeingRewritten
  <2>6. GuideInv'
    BY <1>1, <1>2, <1>5, <2>3 DEF InstallInv, GuideInv
  <2>7. OwnFilesInv'
    BY <1>1, <1>2, <1>5 DEF InstallInv, OwnFilesInv
  <2>8. QED
    BY <2>4, <2>5, <2>6, <2>7 DEF InstallInv
<1>6. CASE current = 3
  <2>1. files' = [files EXCEPT !["tool"] = held[1]]
    BY <1>1, <1>6, Files
  <2>2. held[1] = TRUE
    BY <1>1, <1>6 DEF InstallInv, OwnFilesInv
  <2>3. files' \in [config : ConfigFile, guide : Text, tool : BOOLEAN, instructions : BOOLEAN]
        /\ files'.config = files.config /\ files'.guide = files.guide /\ files'.tool = TRUE
    BY <1>3, <2>1, <2>2
  <2>4. InstallTypeOK'
    BY <1>1, <2>3 DEF InstallInv, InstallTypeOK
  <2>5. ConfigInv'
    BY <1>1, <1>2, <1>6, <2>3 DEF InstallInv, ConfigInv, Registered, BeingRewritten
  <2>6. GuideInv'
    BY <1>1, <1>2, <1>6, <2>3 DEF InstallInv, GuideInv
  <2>7. OwnFilesInv'
    BY <1>1, <1>2, <1>6, <2>3 DEF InstallInv, OwnFilesInv
  <2>8. QED
    BY <2>4, <2>5, <2>6, <2>7 DEF InstallInv
<1>7. CASE current = 4
  <2>1. files' = [files EXCEPT !["instructions"] = held[1]]
    BY <1>1, <1>7, Files
  <2>2. held[1] = TRUE
    BY <1>1, <1>7 DEF InstallInv, OwnFilesInv
  <2>3. files' \in [config : ConfigFile, guide : Text, tool : BOOLEAN, instructions : BOOLEAN]
        /\ files'.config = files.config /\ files'.guide = files.guide /\ files'.tool = files.tool
        /\ files'.instructions = TRUE
    BY <1>3, <2>1, <2>2
  <2>4. InstallTypeOK'
    BY <1>1, <2>3 DEF InstallInv, InstallTypeOK
  <2>5. ConfigInv'
    BY <1>1, <1>2, <1>7, <2>3 DEF InstallInv, ConfigInv, Registered, BeingRewritten
  <2>6. GuideInv'
    BY <1>1, <1>2, <1>7, <2>3 DEF InstallInv, GuideInv
  <2>7. OwnFilesInv'
    BY <1>1, <1>2, <1>7, <2>3 DEF InstallInv, OwnFilesInv
  <2>8. QED
    BY <2>4, <2>5, <2>6, <2>7 DEF InstallInv
<1>8. QED
  BY <1>1, <1>4, <1>5, <1>6, <1>7

\* While the list is empty, what the other program will fill in keeps the servers.
LEMMA OtherCuttingKeeps ==
  ASSUME InstallInv, NEW server \in OtherServer, OtherCuts(server),
         UNCHANGED <<pc, exitCode>>, Installs' <=> Installs
  PROVE  InstallInv'
<1>1. /\ rewriting = <<>> /\ files.config.form \in {"missing", "object"}
      /\ rewriting' = <<Config("object", files.config.servers \cup {server})>>
      /\ files' = [files EXCEPT !.config = EmptyConfig]
      /\ UNCHANGED <<current, phase, held, owed, excused>>
  BY DEF OtherCuts
<1>2. /\ files \in [config : ConfigFile, guide : Text, tool : BOOLEAN, instructions : BOOLEAN]
      /\ files.config.servers \in SUBSET Server /\ server \in Server
  BY DEF InstallInv, InstallTypeOK, ConfigFile, Server
<1>3. EmptyConfig \in ConfigFile /\ EmptyConfig.form = "broken"
  BY DEF EmptyConfig, Config, ConfigFile, Form
<1>4. /\ rewriting' # <<>> /\ rewriting'[1] \in ConfigFile /\ rewriting'[1].form = "object"
      /\ rewriting'[1].servers = files.config.servers \cup {server}
  BY <1>1, <1>2 DEF Config, ConfigFile, Form
<1>5. /\ files'.config = EmptyConfig /\ files'.guide = files.guide /\ files'.tool = files.tool
      /\ files'.instructions = files.instructions
      /\ files' \in [config : ConfigFile, guide : Text, tool : BOOLEAN, instructions : BOOLEAN]
  BY <1>1, <1>2, <1>3
<1>6. Done' <=> Done
  BY DEF Done
<1>7. InstallTypeOK'
  BY <1>1, <1>3, <1>4, <1>5 DEF InstallInv, InstallTypeOK
<1>8. ConfigInv'
  <2>1. ConfigInv /\ ~BeingRewritten
    BY <1>1 DEF InstallInv, BeingRewritten
  <2>2. BeingRewritten'
    BY <1>4, <1>5 DEF BeingRewritten
  <2>3. "config" \in excused \/ owed.config \subseteq files.config.servers
    BY <1>1, <1>3, <2>1 DEF ConfigInv
  <2>4. current > 1 \/ Done => "config" \in excused \/ Buffy \in files.config.servers
    BY <1>1, <2>1 DEF ConfigInv, Registered, Unlisted
  <2>5. QED
    BY <1>1, <1>4, <1>5, <1>6, <2>1, <2>2, <2>3, <2>4 DEF ConfigInv
<1>9. GuideInv'
  BY <1>1, <1>5, <1>6 DEF InstallInv, GuideInv
<1>10. OwnFilesInv'
  BY <1>1, <1>5, <1>6 DEF InstallInv, OwnFilesInv
<1>11. QED
  BY <1>7, <1>8, <1>9, <1>10 DEF InstallInv

\* What Buffy held or wrote in the meantime is lost with a known reason.
LEMMA OtherFillingKeeps ==
  ASSUME InstallInv, OtherFills, UNCHANGED <<pc, exitCode>>, Installs' <=> Installs
  PROVE  InstallInv'
<1>1. /\ rewriting # <<>> /\ rewriting' = <<>>
      /\ files' = [files EXCEPT !.config = rewriting[1]]
      /\ owed' = [owed EXCEPT !.config = owed.config \cup (rewriting[1].servers \ {Buffy})]
      /\ excused' = IF files.config = EmptyConfig THEN TooLate("config") ELSE excused \cup {"config"}
      /\ UNCHANGED <<current, phase, held>>
  BY DEF OtherFills
<1>2. /\ files \in [config : ConfigFile, guide : Text, tool : BOOLEAN, instructions : BOOLEAN]
      /\ owed \in [config : SUBSET Server, guide : Text]
      /\ rewriting[1] \in ConfigFile /\ rewriting[1].form = "object"
      /\ rewriting[1].servers \in SUBSET Server
  BY <1>1 DEF InstallInv, InstallTypeOK, ConfigFile
<1>3. /\ files'.config = rewriting[1] /\ files'.guide = files.guide /\ files'.tool = files.tool
      /\ files'.instructions = files.instructions
      /\ files' \in [config : ConfigFile, guide : Text, tool : BOOLEAN, instructions : BOOLEAN]
  BY <1>1, <1>2
<1>4. /\ owed'.config = owed.config \cup (rewriting[1].servers \ {Buffy})
      /\ owed'.guide = owed.guide
      /\ owed' \in [config : SUBSET Server, guide : Text]
  BY <1>1, <1>2
<1>5. /\ excused \subseteq excused' /\ excused' \subseteq excused \cup {"config"}
      /\ current = 1 /\ phase # "read" => "config" \in excused'
      /\ "config" \in excused' \/ files.config = EmptyConfig
  BY <1>1, Files DEF TooLate, InstallInv, InstallTypeOK
<1>6. Done' <=> Done
  BY DEF Done
<1>7. InstallTypeOK'
  BY <1>1, <1>2, <1>3, <1>4 DEF InstallInv, InstallTypeOK
<1>8. ConfigInv'
  <2>1. ConfigInv
    BY DEF InstallInv
  <2>2. "config" \in excused' \/ owed'.config \subseteq files'.config.servers
    BY <1>1, <1>3, <1>4, <1>5, <2>1 DEF ConfigInv
  <2>3. current > 1 \/ Done => "config" \in excused' \/ Buffy \in files'.config.servers
    BY <1>1, <1>3, <1>5, <2>1 DEF ConfigInv, BeingRewritten
  <2>4. current = 1 /\ phase # "read" =>
          /\ held[1] \in ConfigFile /\ held[1].form \in Unlisted \cup {"object"}
          /\ "config" \in excused'
    BY <1>5, <2>1 DEF ConfigInv
  <2>5. ~BeingRewritten'
    BY <1>1 DEF BeingRewritten
  <2>6. QED
    BY <1>1, <1>6, <2>2, <2>3, <2>4, <2>5 DEF ConfigInv, Registered
<1>9. GuideInv'
  BY <1>1, <1>3, <1>4, <1>5, <1>6 DEF InstallInv, GuideInv
<1>10. OwnFilesInv'
  BY <1>1, <1>3, <1>6 DEF InstallInv, OwnFilesInv
<1>11. QED
  BY <1>7, <1>8, <1>9, <1>10 DEF InstallInv

LEMMA UserWritingKeeps ==
  ASSUME InstallInv, NEW paragraph \in Paragraph, UserWrites(paragraph),
         UNCHANGED <<pc, exitCode>>, Installs' <=> Installs
  PROVE  InstallInv'
<1>1. /\ files' = [files EXCEPT !.guide = Append(files.guide, paragraph)]
      /\ owed' = [owed EXCEPT !.guide = Append(owed.guide, paragraph)]
      /\ excused' = TooLate("guide")
      /\ UNCHANGED <<current, phase, held, rewriting>>
  BY DEF UserWrites
<1>2. /\ files \in [config : ConfigFile, guide : Text, tool : BOOLEAN, instructions : BOOLEAN]
      /\ owed \in [config : SUBSET Server, guide : Text]
  BY DEF InstallInv, InstallTypeOK
<1>3. paragraph \in Piece /\ paragraph # START /\ paragraph # END
  BY InstallerAssumption DEF Piece
<1>4. Append(files.guide, paragraph) \in Text /\ Append(owed.guide, paragraph) \in Text
  BY <1>2, <1>3, AppendedText
<1>5. /\ files'.config = files.config /\ files'.guide = Append(files.guide, paragraph)
      /\ files'.tool = files.tool /\ files'.instructions = files.instructions
      /\ files' \in [config : ConfigFile, guide : Text, tool : BOOLEAN, instructions : BOOLEAN]
  BY <1>1, <1>2, <1>4
<1>6. /\ owed'.config = owed.config /\ owed'.guide = Append(owed.guide, paragraph)
      /\ owed' \in [config : SUBSET Server, guide : Text]
  BY <1>1, <1>2, <1>4
<1>7. /\ excused \subseteq excused' /\ excused' \subseteq excused \cup {"guide"}
      /\ current = 2 /\ phase # "read" => "guide" \in excused'
  BY <1>1, <1>2, Files DEF TooLate, InstallInv, InstallTypeOK
<1>8. Done' => Done
  BY DEF Done
<1>9. InstallTypeOK'
  BY <1>1, <1>5, <1>6 DEF InstallInv, InstallTypeOK
<1>10. ConfigInv'
  BY <1>1, <1>5, <1>6, <1>7, <1>8 DEF InstallInv, ConfigInv, Registered, BeingRewritten
<1>11. GuideInv'
  <2>1. /\ WellFenced(files.guide) =>
             /\ WellFenced(files'.guide)
             /\ UserText(files'.guide) = Append(UserText(files.guide), paragraph)
        /\ HasBlock(files.guide) => HasBlock(files'.guide)
    BY <1>2, <1>3, <1>5, AppendKeeps
  <2>2. \/ "guide" \in excused' \/ (current' = 2 /\ phase' = "fill")
        \/ WellFenced(files'.guide) /\ UserText(files'.guide) = owed'.guide
    BY <1>1, <1>6, <1>7, <2>1 DEF InstallInv, GuideInv
  <2>3. current' = 2 /\ phase' # "read" => held'[1] \in Text /\ "guide" \in excused'
    BY <1>1, <1>7 DEF InstallInv, GuideInv
  <2>4. current' > 2 \/ Done' => "guide" \in excused' \/ HasBlock(files'.guide)
    BY <1>1, <1>7, <1>8, <2>1 DEF InstallInv, GuideInv
  <2>5. QED
    BY <2>2, <2>3, <2>4 DEF GuideInv
<1>12. OwnFilesInv'
  BY <1>1, <1>5, <1>8 DEF InstallInv, OwnFilesInv
<1>13. QED
  BY <1>9, <1>10, <1>11, <1>12 DEF InstallInv

LEMMA InstallInvKept ==
  ASSUME ProcessInv, InstallInv, [Next]_vars
  PROVE  InstallInv'
<1>1. Quiet \/ Working \/ Stopping \/ Outside
  BY SessionSteps DEF InstallInv
<1>2. Working => ReadFile \/ CutFile \/ FillFile
  BY DEF Working, InstallStep
<1>3. Outside => \/ \E server \in OtherServer : OtherCuts(server)
                 \/ OtherFills
                 \/ \E paragraph \in Paragraph : UserWrites(paragraph)
  BY DEF Outside, OthersStep
<1>4. Outside => UNCHANGED <<pc, exitCode>> /\ (Installs' <=> Installs)
  BY DEF Outside
<1>5. QED
  BY <1>1, <1>2, <1>3, <1>4, QuietKeeps, StoppingKeeps, ReadingKeeps, CuttingKeeps, FillingKeeps,
     OtherCuttingKeeps, OtherFillingKeeps, UserWritingKeeps

\* Whatever installations are begun and however they end, the servers of others and
\* the text outside Buffy's block are still there, but for a file left empty, changed
\* after it was read, or with its markers out of order, and a list of servers that did
\* not parse when it was read or that another program wrote over Buffy's; and an
\* installation that says it is done has done it (antigravity.ts:65-103).
THEOREM InstallationKeepsTheRest == Spec => []InstallKeepsTheRest
<1>1. SessionInit => InstallInv
  BY InstallInitInv
<1>2. ProcessInv /\ InstallInv /\ [Next]_vars => InstallInv'
  BY InstallInvKept
<1>3. InstallInv => InstallKeepsTheRest
  <2> SUFFICES ASSUME InstallInv PROVE InstallKeepsTheRest
    OBVIOUS
  <2>1. ConfigInv /\ GuideInv /\ OwnFilesInv
    BY DEF InstallInv
  <2>2. /\ current = 1 /\ phase = "fill" => BeingFilled("config")
        /\ current = 2 /\ phase = "fill" => BeingFilled("guide")
    BY Files DEF BeingFilled
  <2>3. Done => /\ "config" \in excused \/ BeingRewritten \/ Registered
                /\ "guide" \in excused \/ HasBlock(files.guide)
                /\ files.tool /\ files.instructions
    BY <2>1 DEF ConfigInv, GuideInv, OwnFilesInv
  <2>4. /\ \/ "config" \in excused \/ BeingFilled("config") \/ BeingRewritten
           \/ owed.config \subseteq files.config.servers
        /\ \/ "guide" \in excused \/ BeingFilled("guide")
           \/ WellFenced(files.guide) /\ UserText(files.guide) = owed.guide
    BY <2>1, <2>2 DEF ConfigInv, GuideInv
  <2>5. QED
    BY <2>3, <2>4 DEF InstallKeepsTheRest, Done, HasBlock
<1>4. QED
  BY <1>1, <1>2, <1>3, ProcessInvariant, PTL DEF Spec
=============================================================================
