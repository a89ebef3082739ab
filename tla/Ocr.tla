--------------------------------- MODULE Ocr ---------------------------------
(***************************************************************************)
(* internal/ocr: a command runs one engine, or all of them one after the   *)
(* other, on a PDF.  It makes a directory for the input, and one for the   *)
(* output unless it is given one; an engine is a container or a program    *)
(* that leaves files in the output directory, and what stands there when   *)
(* it has ended is its result.  Commands run beside each other and may be  *)
(* given the same directory.                                               *)
(*                                                                         *)
(* Abstracted: of an engine's files only output.md, as the command that    *)
(* wrote it; warnings and logs; how a container is called, and what one    *)
(* writes that outlives its timeout.  A given directory stands for the one *)
(* of the input's name below it.  Removing a directory succeeds.           *)
(***************************************************************************)
EXTENDS Integers, Sequences

CONSTANTS Commands, Dirs, None,
          EngineIds,
          Engines,  \* of "all" without and with a GPU, in the order of the registry
          OnGpu     \* the engines that run on a GPU

VARIABLES asked,   \* the options of a command
          pc, reply,
          inputs,  \* commands whose input directory exists
          temps,   \* commands whose temporary output directory exists
          text,    \* whose output.md stands in an engine's directory
          exit,    \* whether the engine that ran last succeeded
          got      \* the results so far

vars == <<asked, pc, reply, inputs, temps, text, exit, got>>

Options == [all : BOOLEAN, gpu : BOOLEAN, engine : EngineIds, keep : BOOLEAN, out : Dirs \cup {None}]
NoOptions == [all |-> FALSE, gpu |-> FALSE, engine |-> None, keep |-> FALSE, out |-> None]
Result == [engine : EngineIds, success : BOOLEAN, text : Commands \cup {None}]

(* resolveBaseOutputDir: the directory given, or a new one.                *)
BaseDir(c) == IF asked[c].out = None THEN c ELSE asked[c].out

(* The engines a command runs, and the one whose turn it is.               *)
Plan(c) == IF asked[c].all THEN Engines[asked[c].gpu] ELSE <<asked[c].engine>>
Current(c) == Plan(c)[Len(got[c]) + 1]

(* Only with all engines each has a directory of its own.                  *)
Place(c) == <<BaseDir(c), IF asked[c].all THEN Current(c) ELSE None>>

Init ==
    /\ asked = [c \in Commands |-> NoOptions]
    /\ pc = [c \in Commands |-> "idle"] /\ reply = [c \in Commands |-> "none"]
    /\ inputs = {} /\ temps = {}
    /\ text = [p \in (Dirs \cup Commands) \X (EngineIds \cup {None}) |-> None]
    /\ exit = [c \in Commands |-> FALSE] /\ got = [c \in Commands |-> <<>>]

Goes(c, to) == pc' = [pc EXCEPT ![c] = to]
Ends(c, r) == Goes(c, "leaving") /\ reply' = [reply EXCEPT ![c] = r]

(* The engine is unknown or does not run on a GPU, all of them have        *)
(* nowhere to leave their files, or there is no room for the input.        *)
Refuse(c) ==
    /\ pc[c] = "idle"
    /\ Goes(c, "done") /\ reply' = [reply EXCEPT ![c] = "error"]
    /\ UNCHANGED <<asked, inputs, temps, text, exit, got>>

Start(c, o) ==
    /\ pc[c] = "idle"
    /\ IF o.all THEN o.out # None \/ o.keep ELSE o.gpu => o.engine \in OnGpu
    /\ asked' = [asked EXCEPT ![c] = o]
    /\ inputs' = inputs \cup {c}
    /\ Goes(c, "input")
    /\ UNCHANGED <<reply, temps, text, exit, got>>

WriteInput(c) ==
    /\ pc[c] = "input"
    /\ Goes(c, "output")
    /\ UNCHANGED <<asked, reply, inputs, temps, text, exit, got>>

MakeOutput(c) ==
    /\ pc[c] = "output"
    /\ temps' = IF asked[c].out = None THEN temps \cup {c} ELSE temps
    /\ Goes(c, "run")
    /\ UNCHANGED <<asked, reply, inputs, text, exit, got>>

(* A file or directory cannot be written, docker or pdftotext is missing,  *)
(* the engine does not support the GPU: the command ends, and with all     *)
(* engines the others' results are dropped.                                *)
Fail(c) ==
    /\ pc[c] \in {"input", "output", "run", "compare"}
    /\ Ends(c, "error")
    /\ UNCHANGED <<asked, inputs, temps, text, exit, got>>

(* DockerExecutor.Run, LocalExecutor.Run: the engine ends well, fails or   *)
(* runs into its timeout, and has written its file or not.                 *)
Execute(c, success, wrote) ==
    /\ pc[c] = "run"
    /\ asked[c].gpu => Current(c) \in OnGpu
    /\ exit' = [exit EXCEPT ![c] = success]
    /\ text' = IF wrote THEN [text EXCEPT ![Place(c)] = c] ELSE text
    /\ Goes(c, "parse")
    /\ UNCHANGED <<asked, reply, inputs, temps, got>>

(* What stands in the directory now is the engine's result, and a failed   *)
(* engine does not keep the next from running.                             *)
Report(c) == [engine |-> Current(c), success |-> exit[c], text |-> text[Place(c)]]

ParseOutput(c) ==
    /\ pc[c] = "parse"
    /\ got' = [got EXCEPT ![c] = Append(@, Report(c))]
    /\ IF Len(got[c]) + 1 < Len(Plan(c)) THEN Goes(c, "run") /\ UNCHANGED reply
       ELSE IF asked[c].all THEN Goes(c, "compare") /\ UNCHANGED reply
       ELSE Ends(c, "ok")
    /\ UNCHANGED <<asked, inputs, temps, text, exit>>

WriteComparison(c) ==
    /\ pc[c] = "compare"
    /\ Ends(c, "ok")
    /\ UNCHANGED <<asked, inputs, temps, text, exit, got>>

(* The deferred calls: first the output, if it is temporary and not kept,  *)
(* then the input.                                                         *)
RemoveOutput(c) ==
    /\ pc[c] = "leaving"
    /\ temps' = IF asked[c].keep THEN temps ELSE temps \ {c}
    /\ Goes(c, "left")
    /\ UNCHANGED <<asked, reply, inputs, text, exit, got>>

RemoveInput(c) ==
    /\ pc[c] = "left"
    /\ inputs' = inputs \ {c}
    /\ Goes(c, "done")
    /\ UNCHANGED <<asked, reply, temps, text, exit, got>>

(* The process is killed: no deferred call runs.                           *)
Die(c) ==
    /\ pc[c] \notin {"idle", "done", "dead"}
    /\ Goes(c, "dead")
    /\ UNCHANGED <<asked, reply, inputs, temps, text, exit, got>>

Step(c) ==
    \/ Refuse(c) \/ WriteInput(c) \/ MakeOutput(c) \/ Fail(c) \/ ParseOutput(c) \/ WriteComparison(c)
    \/ RemoveOutput(c) \/ RemoveInput(c) \/ Die(c)
    \/ \E o \in Options : Start(c, o)
    \/ \E success, wrote \in BOOLEAN : Execute(c, success, wrote)

Next == \E c \in Commands : Step(c)

Spec == Init /\ [][Next]_vars

-----------------------------------------------------------------------------
(* Properties *)

(* A command that has ended, well or not, has left no input behind, and no *)
(* output unless it was to be kept.                                        *)
NothingIsLeft ==
    \A c \in Commands : pc[c] = "done" => c \notin inputs /\ (c \in temps => asked[c].keep)

(* The results of all engines name directories: these outlive the command. *)
(* (Those of a single engine need not.)                                    *)
ResultsOutlive ==
    \A c \in Commands : pc[c] = "done" /\ reply[c] = "ok" /\ asked[c].all => asked[c].out # None \/ c \in temps

(* In a directory of its own a command never takes another one's text for  *)
(* its own, nor an engine's for another's; in a given one an engine that   *)
(* writes nothing reports what an earlier run, or one beside it, left.     *)
OwnText ==
    \A c \in Commands : asked[c].out = None => \A n \in 1..Len(got[c]) : got[c][n].text \in {None, c}

(* A command that succeeds has one result of each of its engines, in their *)
(* order, whichever of them failed.                                        *)
EveryEngineReports ==
    \A c \in Commands : reply[c] = "ok" =>
        Len(got[c]) = Len(Plan(c)) /\ \A n \in 1..Len(got[c]) : got[c][n].engine = Plan(c)[n]

(* With all engines on a GPU no command succeeds, if one of them, as       *)
(* pdftotext and docling, is among "all" and does not run on one.          *)
AllFailOnGpu ==
    \A c \in Commands : asked[c].all /\ asked[c].gpu => reply[c] # "ok"
=============================================================================
