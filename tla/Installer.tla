------------------------------ MODULE Installer ------------------------------
(***************************************************************************)
(* buffy install (install/antigravity.ts): the four files it writes, one      *)
(* after the other, into the directory of another program.  The list of MCP   *)
(* servers is merged into what was there, the instructions go between two      *)
(* markers of GEMINI.md, and two files of Buffy's own are written afresh.      *)
(*                                                                         *)
(* writeFileSync empties the file, then fills it.  What others keep there is   *)
(* the other servers and the user's text; both may change at any time.  Other   *)
(* programs write the list of servers in the same two steps, one of them at a   *)
(* time; the user's text is appended in one.  The text is a sequence of pieces  *)
(* of one length each: the code counts characters.                          *)
(***************************************************************************)
EXTENDS Naturals, Sequences, SequencesExt

CONSTANTS
  OtherServer, \* the servers other programs register
  Paragraph,   \* what the user may add to GEMINI.md
  Configs,     \* the lists of servers that may be there before
  Guides       \* the texts that may be there before

VARIABLES
  files,   \* config, guide, tool and instructions
  current, \* the number of the file that is installed
  phase,   \* read, cut or fill: what is done to it next
  held,    \* what it will be filled with
  owed,    \* the servers and the text others count on
  rewriting, \* the list of servers another program is about to fill in, if any
  excused  \* the files whose loss has a known reason

installVars == <<files, current, phase, held, owed, rewriting, excused>>

FileOrder == <<"config", "guide", "tool", "instructions">>
Buffy == "buffy"

-----------------------------------------------------------------------------
(* mcp_config.json: missing; broken (not JSON, empty, or JSON without a place  *)
(* for fields); list (an array); or an object whose mcpServers are an object,    *)
(* or none (object), an array (serverList) or something else (scalar).         *)

Config(form, servers) == [form |-> form, servers |-> servers]

Unlisted == {"list", "serverList"}

\* What is broken counts as empty.  A name set on an array is not written.
Merged(config) ==
  CASE config.form \in Unlisted -> config
    [] config.form = "object" -> Config("object", config.servers \cup {Buffy})
    [] OTHER -> Config("object", {Buffy})

\* A field set on a string or a number throws.
Rejects(config) == config.form = "scalar"

-----------------------------------------------------------------------------
(* GEMINI.md. *)

START == "<!-- BUFFY_START -->"
END == "<!-- BUFFY_END -->"
BuffyBlock == <<START, "block", END>>

\* What the files may hold.  Markers are there from before or from Buffy: the user
\* writes none.
Server == {Buffy} \cup OtherServer \cup UNION {config.servers : config \in Configs}
Piece == ToSet(BuffyBlock) \cup Paragraph \cup UNION {ToSet(guide) : guide \in Guides}

Form == {"missing", "broken", "list", "object", "serverList", "scalar"}

\* A broken file may still name servers, in text that does not parse.
ASSUME InstallerAssumption ==
  /\ Configs \subseteq [form : Form, servers : SUBSET Server]
  /\ \A config \in Configs : config.form \in {"missing", "scalar"} => config.servers = {}
  /\ Guides \subseteq Seq(Piece)
  /\ START \notin Paragraph /\ END \notin Paragraph

FirstIndex(content, marker) == SelectInSeq(content, LAMBDA piece : piece = marker)

\* Without an end the old block is taken to be as long as the new one.
BlockEnd(content) ==
  IF Contains(content, END) THEN FirstIndex(content, END)
  ELSE FirstIndex(content, START) + Len(BuffyBlock) - 1

\* Mutant: the end marker of the old block stays.
UpsertKeepingEnd(content) ==
  IF Contains(content, START)
    THEN SubSeq(content, 1, FirstIndex(content, START) - 1) \o BuffyBlock
           \o SubSeq(content, BlockEnd(content), Len(content))
    ELSE content \o BuffyBlock

UpsertSection(content) ==
  IF Contains(content, START)
    THEN SubSeq(content, 1, FirstIndex(content, START) - 1) \o BuffyBlock
           \o SubSeq(content, BlockEnd(content) + 1, Len(content))
    ELSE content \o BuffyBlock

\* The markers are in order, or there are none.
WellFenced(content) ==
  \/ ~Contains(content, START) /\ ~Contains(content, END)
  \/ /\ Contains(content, START) /\ Contains(content, END)
     /\ FirstIndex(content, START) < FirstIndex(content, END)

\* What is outside the first block.
UserText(content) ==
  IF WellFenced(content) /\ Contains(content, START)
    THEN SubSeq(content, 1, FirstIndex(content, START) - 1)
           \o SubSeq(content, FirstIndex(content, END) + 1, Len(content))
    ELSE content

-----------------------------------------------------------------------------
(* The steps of installAntigravity. *)

InstallInit ==
  /\ \E config \in Configs, guide \in Guides :
       /\ files = [config |-> config, guide |-> guide, tool |-> FALSE, instructions |-> FALSE]
       /\ owed = [config |-> config.servers, guide |-> UserText(guide)]
       /\ excused = IF WellFenced(guide) THEN {} ELSE {"guide"}
  /\ current = 1 /\ phase = "read" /\ held = <<>> /\ rewriting = <<>>

File == FileOrder[current]

\* What the file is to hold; the two files of Buffy's own are not read.
NewContent ==
  CASE File = "config" -> Merged(files.config)
    [] File = "guide" -> UpsertSection(files.guide)
    [] OTHER -> TRUE

EmptyConfig == Config("broken", {})
Emptied == CASE File = "config" -> EmptyConfig [] File = "guide" -> <<>> [] OTHER -> FALSE

\* The servers named in a list that does not parse -- damaged, or just now emptied by
\* another program -- are not in what is held: a known loss.
ReadFile ==
  /\ current \in DOMAIN FileOrder /\ phase = "read"
  /\ ~(File = "config" /\ Rejects(files.config))
  /\ held' = <<NewContent>>
  /\ phase' = "cut"
  /\ excused' = IF File = "config" /\ files.config.form = "broken" /\ owed.config # {}
                  THEN excused \cup {"config"} ELSE excused
  /\ UNCHANGED <<files, current, owed, rewriting>>

CutFile ==
  /\ phase = "cut"
  /\ files' = [files EXCEPT ![File] = Emptied]
  /\ phase' = "fill"
  /\ UNCHANGED <<current, held, owed, rewriting, excused>>

FillFile ==
  /\ phase = "fill"
  /\ files' = [files EXCEPT ![File] = held[1]]
  /\ current' = current + 1 /\ phase' = "read" /\ held' = <<>>
  /\ UNCHANGED <<owed, rewriting, excused>>

InstallStep == ReadFile \/ CutFile \/ FillFile

\* The process is gone, or a write failed: what is empty stays empty.
StopInstalling ==
  /\ excused' = IF phase = "fill" THEN excused \cup {File} ELSE excused
  /\ current' = 1 /\ phase' = "read" /\ held' = <<>>
  /\ UNCHANGED <<files, owed, rewriting>>

\* What comes after the file was read is overwritten.
TooLate(file) ==
  IF phase \in {"cut", "fill"} /\ File = file THEN excused \cup {file} ELSE excused

\* Another program registers a server: it reads the list and empties the file ...
OtherCuts(server) ==
  /\ rewriting = <<>>
  /\ files.config.form \in {"missing", "object"} /\ server \notin files.config.servers
  /\ server \notin owed.config
  /\ rewriting' = <<Config("object", files.config.servers \cup {server})>>
  /\ files' = [files EXCEPT !.config = EmptyConfig]
  /\ UNCHANGED <<current, phase, held, owed, excused>>

\* ... and fills it, or never does.  What Buffy wrote in between is overwritten.
OtherFills ==
  /\ rewriting # <<>>
  /\ files' = [files EXCEPT !.config = rewriting[1]]
  /\ owed' = [owed EXCEPT !.config = @ \cup (rewriting[1].servers \ {Buffy})]
  /\ excused' = IF files.config = EmptyConfig THEN TooLate("config") ELSE excused \cup {"config"}
  /\ rewriting' = <<>>
  /\ UNCHANGED <<current, phase, held>>

\* The user writes.
UserWrites(paragraph) ==
  /\ ~Contains(owed.guide, paragraph)
  /\ files' = [files EXCEPT !.guide = Append(@, paragraph)]
  /\ owed' = [owed EXCEPT !.guide = Append(@, paragraph)]
  /\ excused' = TooLate("guide")
  /\ UNCHANGED <<current, phase, held, rewriting>>

OthersStep ==
  \/ \E server \in OtherServer : OtherCuts(server)
  \/ OtherFills
  \/ \E paragraph \in Paragraph : UserWrites(paragraph)

=============================================================================
