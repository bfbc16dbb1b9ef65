------------------------------ MODULE HostReport ------------------------------
(***************************************************************************)
(* From a machine to what buffy doctor reports of it: the platform            *)
(* (adapters/index.ts), what its adapter measures and what it puts in the      *)
(* place of a measurement that cannot be taken (adapters/linux.ts, windows.ts, *)
(* android.ts, shared/gpu.ts), the items of the doctor (core/doctor.ts) and    *)
(* the context for other programs (core/context.ts).                          *)
(*                                                                         *)
(* A machine is a record of what is the case: cpu, ram and used (of the disk)  *)
(* are percentages, busiest the greatest share of one process.  A source is a  *)
(* command or file an adapter asks; one that is silent fails, takes too long   *)
(* or cannot be parsed.  The system an adapter reports has the form of         *)
(* SystemFacts.  Names, sizes and versions are left out.                      *)
(***************************************************************************)
EXTENDS SystemFacts

OperatingSystem == {"win32", "linux", "android", "darwin"}
Environment == [os : OperatingSystem, termux : BOOLEAN, androidRoot : BOOLEAN, androidData : BOOLEAN]

\* One Android variable alone is found on desktops too.
DetectPlatform(env) ==
  IF env.os = "win32" THEN "windows"
  ELSE IF env.os \in {"linux", "android"} /\ (env.termux \/ (env.androidRoot /\ env.androidData))
    THEN "android-termux"
  ELSE IF env.os = "linux" THEN "linux"
  ELSE "unknown"

-----------------------------------------------------------------------------
(* The sources of each measurement, in the order they are asked. *)

LinuxSources ==
  [model |-> <<"cpuinfo">>, cores |-> <<"nproc">>, usage |-> <<>>, memory |-> <<"meminfo">>,
   card |-> <<"lspci", "drm">>, temperature |-> <<"thermal", "sensors">>,
   disk |-> <<"df">>, busiest |-> <<"ps">>, tools |-> <<"command">>]

WindowsSources ==
  [model |-> <<"processor">>, cores |-> <<"processor">>, usage |-> <<"perfos">>,
   memory |-> <<"os">>, card |-> <<"video">>, temperature |-> <<"acpi">>,
   disk |-> <<"disk">>, busiest |-> <<>>, tools |-> <<"get-command">>]

AndroidSources ==
  [model |-> <<"cpuinfo">>, cores |-> <<"nproc">>, usage |-> <<>>, memory |-> <<"meminfo">>,
   card |-> <<"surfaceflinger", "egl", "board">>, temperature |-> <<"thermal">>,
   disk |-> <<"df", "stat">>, busiest |-> <<>>, tools |-> <<"command">>]

Sources(platform) ==
  CASE platform = "linux" -> LinuxSources
    [] platform = "windows" -> WindowsSources
    [] platform = "android-termux" -> AndroidSources

\* The source that answers, the first that is not silent.
AnsweredBy(platform, measure, silent) ==
  LET speaking == SelectSeq(Sources(platform)[measure], LAMBDA s : s \notin silent)
  IN IF speaking = <<>> THEN "none" ELSE speaking[1]

Measured(platform, measure, silent) == AnsweredBy(platform, measure, silent) # "none"

-----------------------------------------------------------------------------
(* systemInfo and capabilities. *)

\* Without a name of the card: null on Linux, a desktop card on Windows, no vendor
\* of mobile cards on Android.  A board's name is no vendor's either; a vendor's
\* number is taken for a proper card.
Generic(platform, machine, silent) ==
  LET by == AnsweredBy(platform, "card", silent)
  IN CASE by \in {"lspci", "video", "surfaceflinger", "egl"} -> machine.genericGpu
       [] by = "drm" -> FALSE
       [] by = "board" -> TRUE
       [] by = "none" -> platform = "android-termux"

Mount(platform) ==
  CASE platform = "linux" -> "storage-/"
    [] platform = "windows" -> "storage-C:"
    [] platform = "android-termux" -> "storage-/data"

\* Android reports a disk of size 0 where the others report none.
Disks(platform, machine, silent) ==
  IF Measured(platform, "disk", silent) THEN <<[id |-> Mount(platform), used |-> machine.used]>>
  ELSE IF platform = "android-termux" THEN <<[id |-> Mount(platform), used |-> 0]>>
  ELSE <<>>

IfMeasured(platform, measure, silent, value) ==
  IF Measured(platform, measure, silent) THEN value ELSE 0

\* The processor's load is read on Windows only, that of a process on Linux only.
SystemInfo(platform, machine, silent) ==
  [cpu |-> IfMeasured(platform, "usage", silent, machine.cpu),
   ram |-> IfMeasured(platform, "memory", silent, machine.ram),
   genericGpu |-> Generic(platform, machine, silent),
   temperature |-> IfMeasured(platform, "temperature", silent, machine.temperature),
   disks |-> Disks(platform, machine, silent),
   busiest |-> IfMeasured(platform, "busiest", silent, machine.busiest)]

\* Mutant: Linux too says 0 when the memory is not known.
AlwaysHasMemory(platform, silent) == TRUE

\* Only Linux says that the amount of memory is not known; the others say 0.
HasMemory(platform, silent) == platform # "linux" \/ Measured(platform, "memory", silent)

ToolsOf(platform) ==
  {"Node.js", "ADB"} \cup (IF platform = "android-termux" THEN {"Shizuku (rish)"} ELSE {})
Capabilities(platform, machine, silent) ==
  IF Measured(platform, "tools", silent) THEN machine.tools \cap ToolsOf(platform) ELSE {}

\* detectPrivileges looks for the tool first; Windows has none to detect.
Privileges(platform, machine, silent) ==
  LET found == Capabilities(platform, machine, silent)
      device == IF "ADB" \in found THEN machine.privileges \cap {"adb"} ELSE {}
      shizuku == IF "Shizuku (rish)" \in found THEN machine.privileges \cap {"shizuku"} ELSE {}
  IN CASE platform = "windows" -> {}
       [] platform = "linux" -> {"shell"} \cup (machine.privileges \cap {"root"}) \cup device
       [] platform = "android-termux" ->
            (machine.privileges \cap {"shell", "root"}) \cup device \cup shizuku

-----------------------------------------------------------------------------
(* analyzeSystem: the doctor has limits of its own. *)

Item(id, severity) == [id |-> id, severity |-> severity]
OkIf(condition) == IF condition THEN "ok" ELSE "warning"

RamItem(system, known) ==
  Item("ram-usage", IF known THEN Graded(system.ram, 90, 75) ELSE "unknown")
GpuItem(system) ==
  IF system.genericGpu THEN Item("gpu-generic-driver", "warning") ELSE Item("gpu-driver", "ok")
StorageItems(system) ==
  {Item(d.id, Graded(d.used, 95, 85)) : d \in ToSet(system.disks)}
TemperatureItems(system) ==
  IF system.temperature = 0 THEN {}
  ELSE {Item("temperature-cpu", Graded(system.temperature, 80, 65))}

\* The tool adb has rows of its own: the binary, and the device when it is measured.
ToolItems(platform, tools) ==
  {Item(t, "warning") : t \in ToolsOf(platform) \ (tools \cup {"ADB"})}
AdbItems(platform, tools, privileges) ==
  {Item("adb-binario", OkIf("ADB" \in tools))}
  \cup IF "ADB" \in tools /\ platform # "windows"
         THEN {Item("adb-dispositivo", OkIf("adb" \in privileges))} ELSE {}
PrivilegeItems(platform, privileges) ==
  IF platform = "windows" THEN {}
  ELSE {Item(p, OkIf(p \in privileges)) : p \in {"shell", "shizuku", "root"}}

AnalyzeSystem(platform, system, known, tools, privileges) ==
  {Item("os-version", "ok"), Item("cpu-model", "ok"), RamItem(system, known), GpuItem(system)}
  \cup StorageItems(system) \cup TemperatureItems(system)
  \cup ToolItems(platform, tools) \cup AdbItems(platform, tools, privileges)
  \cup PrivilegeItems(platform, privileges)

-----------------------------------------------------------------------------
(* buildContext: the measurements it calls observed.  What is not null is. *)

ObservedFields(platform, system, known, silent) ==
  {"model", "card"}
  \cup (IF platform = "windows" /\ ~Measured(platform, "cores", silent) THEN {} ELSE {"cores"})
  \cup (IF known THEN {"memory"} ELSE {})
  \cup (IF system.temperature = 0 THEN {} ELSE {"temperature"})
  \cup (IF system.disks = <<>> THEN {} ELSE {"disk"})

RunDoctor(platform, machine, silent) ==
  LET system == SystemInfo(platform, machine, silent)
      known == HasMemory(platform, silent)
      tools == Capabilities(platform, machine, silent)
      privileges == Privileges(platform, machine, silent)
  IN [system |-> system,
      items |-> AnalyzeSystem(platform, system, known, tools, privileges),
      observed |-> ObservedFields(platform, system, known, silent)]

=============================================================================
