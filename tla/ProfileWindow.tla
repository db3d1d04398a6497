---------------------------- MODULE ProfileWindow ----------------------------
(* The one profiled concurrency window of each ops unit: the harness in its   *)
(* container (harness/workloads/profile_window.py, the loop over windows of   *)
(* concurrency.py) and, on the host, the reader of its output and perf        *)
(* (orchestrator/perf_window.py under docker_ctl.run_foreground). They share  *)
(* the harness's output, one line after the other, and a directory of         *)
(* acknowledgements that outlives the unit.                                   *)
(*                                                                            *)
(* Of the harness's output only the marks are modelled; of time, that the     *)
(* reader may be slower than the harness waits for it.                        *)
EXTENDS Integers, Sequences, SequencesExt

CONSTANTS
    Windows,    \* the windows of a unit, in order: "published" or "profiled"
    MaxUnits    \* bound: units

ASSUME ProfileAssumption == /\ Windows \in Seq({"published", "profiled"})
                            /\ MaxUnits \in Nat \ {0}

VARIABLES
    unit,      \* the unit, each with a harness and a reader of its own
    harness,   \* where the harness is
    w,         \* the window it is at
    word,      \* what it was told of perf: none, recording, unavailable, empty
               \* (a file with nothing in it), silent (no file in time)
    output,    \* its output that has not been read
    acks,      \* the files in the acknowledgement directory
    reader,    \* where the reader is
    handled,   \* the token of the begin mark it handles
    answer,    \* what it will acknowledge
    active,    \* the token of the watcher's open perf window, or None
    sampling,  \* tokens of the perf processes that sample the server
    folding    \* tokens whose samples are being folded on the host

harnessVars == <<harness, w, word>>
readerVars == <<reader, handled, answer, active, sampling, folding>>
windowVars == <<unit, harnessVars, output, acks, readerVars>>

Tokens == (1 .. MaxUnits) \X DOMAIN Windows
None == <<0, 0>>
Token == <<unit, w>>
Begin(t) == [mark |-> "begin", token |-> t]
End(t) == [mark |-> "end", token |-> t]
Eof == [mark |-> "eof", token |-> None]

Marks == [mark : {"begin", "end", "eof"}, token : Tokens \cup {None}]
AckFiles == [token : Tokens, word : {"recording", "unavailable", "empty"}]

WindowTypeOK ==
    /\ unit \in 1 .. MaxUnits
    /\ harness \in {"between", "asking", "open", "closed", "failed", "gone"}
    /\ w \in 1 .. Len(Windows) + 1
    /\ word \in {"none", "recording", "unavailable", "empty", "silent"}
    /\ output \in Seq(Marks)
    /\ acks \subseteq AckFiles
    /\ reader \in {"reading", "starting", "acking", "filling", "stopping", "folding",
                   "flushing", "draining", "done", "dead"}
    /\ {handled, active} \subseteq Tokens \cup {None}
    /\ answer \in {"recording", "unavailable"}
    /\ sampling \subseteq Tokens /\ folding \subseteq Tokens

WindowInit ==
    /\ unit = 1
    /\ harness = "between" /\ w = 1 /\ word = "none"
    /\ output = << >> /\ acks = {}
    /\ reader = "reading" /\ handled = None /\ active = None
    /\ answer = "unavailable"
    /\ sampling = {} /\ folding = {}

-----------------------------------------------------------------------------
(* The harness. *)

OpenPublished ==
    /\ harness = "between" /\ w \in DOMAIN Windows
    /\ Windows[w] = "published"
    /\ harness' = "open"
    /\ UNCHANGED <<unit, w, word, output, acks, readerVars>>

PrintBegin ==
    /\ harness = "between" /\ w \in DOMAIN Windows
    /\ Windows[w] = "profiled"
    /\ harness' = "asking"
    /\ output' = Append(output, Begin(Token))
    /\ UNCHANGED <<unit, w, word, acks, readerVars>>

(* The first file there is taken for the answer.                              *)
SeeAck_Any ==
    /\ harness = "asking"
    /\ \E a \in acks : word' = a.word /\ acks' = acks \ {a}
    /\ harness' = "open"
    /\ UNCHANGED <<unit, w, output, readerVars>>

(* The file is named for the token, read, and removed; the reader may have    *)
(* created it and not yet written to it.                                      *)
SeeAck ==
    /\ harness = "asking"
    /\ \E a \in acks : /\ a.token = Token
                       /\ word' = a.word
                       /\ acks' = acks \ {a}
    /\ harness' = "open"
    /\ UNCHANGED <<unit, w, output, readerVars>>

AckTimeout ==
    /\ harness = "asking"
    /\ harness' = "open" /\ word' = "silent"
    /\ UNCHANGED <<unit, w, output, acks, readerVars>>

(* A window is measured, or raises.                                           *)
Close ==
    /\ harness = "open"
    /\ harness' \in {"closed", "failed"}
    /\ UNCHANGED <<unit, w, word, output, acks, readerVars>>

(* The end mark is printed in a finally; nobody acknowledges it. A window     *)
(* that raised ends the harness.                                              *)
LeaveWindow(next, said) ==
    /\ \/ /\ harness = "closed"
          /\ harness' = "between" /\ w' = next /\ word' = "none"
          /\ output' = said
       \/ /\ harness = "failed"
          /\ harness' = "gone" /\ output' = Append(said, Eof)
          /\ UNCHANGED <<w, word>>
    /\ UNCHANGED <<unit, acks, readerVars>>

Said == IF Windows[w] = "profiled" THEN Append(output, End(Token)) ELSE output

(* A plausible bug: the end of a window is not announced.                     *)
AfterWindow_Unsaid == LeaveWindow(w + 1, output)
AfterWindow == LeaveWindow(w + 1, Said)

(* The harness ends, after its last window or killed at any point.            *)
Gone ==
    /\ harness # "gone"
    /\ harness' = "gone"
    /\ output' = Append(output, Eof)
    /\ UNCHANGED <<unit, w, word, acks, readerVars>>

-----------------------------------------------------------------------------
(* The reader and perf. *)

(* _finish: a window that is open is stopped before anything else.            *)
ReadMark ==
    /\ reader = "reading" /\ output # << >>
    /\ output' = Tail(output)
    /\ LET m == Head(output) IN
       CASE m.mark = "begin" -> reader' = "starting" /\ handled' = m.token
         [] m.mark = "end"   -> /\ reader' = IF active = None THEN "reading" ELSE "stopping"
                                /\ UNCHANGED handled
         [] m.mark = "eof"   -> /\ reader' = IF active = None THEN "done" ELSE "flushing"
                                /\ UNCHANGED handled
    /\ UNCHANGED <<unit, harnessVars, acks, answer, active, sampling, folding>>

(* PerfWindow.start: perf is at work before the acknowledgement is written;   *)
(* it is not there, or refuses.                                               *)
StartPerf ==
    /\ reader = "starting"
    /\ reader' = "acking"
    /\ \/ answer' = "recording" /\ active' = handled
          /\ sampling' = sampling \cup {handled}
       \/ answer' = "unavailable" /\ UNCHANGED <<active, sampling>>
    /\ UNCHANGED <<unit, harnessVars, output, acks, handled, folding>>

(* _ack opens the file, which creates it, or cannot.                          *)
CreateAck ==
    /\ reader = "acking"
    /\ \/ reader' = "filling"
          /\ acks' = acks \cup {[token |-> handled, word |-> "empty"]}
       \/ reader' = "reading" /\ UNCHANGED acks
    /\ UNCHANGED <<unit, harnessVars, output, handled, answer, active, sampling,
                   folding>>

(* What is written to a file the harness has removed is nowhere.              *)
FillAck ==
    /\ reader = "filling"
    /\ reader' = "reading"
    /\ acks' = {IF a.token = handled THEN [a EXCEPT !.word = answer] ELSE a : a \in acks}
    /\ UNCHANGED <<unit, harnessVars, output, handled, answer, active, sampling,
                   folding>>

(* PerfWindow.stop waits for perf, or kills it, and folds what it recorded.   *)
StopWindow(stopped) ==
    /\ reader \in {"stopping", "flushing"}
    /\ reader' = IF reader = "stopping" THEN "folding" ELSE "draining"
    /\ sampling' = sampling \ stopped
    /\ folding' = folding \cup {active}
    /\ UNCHANGED <<unit, harnessVars, output, acks, handled, answer, active>>

(* perf is asked to end and nobody waits for it.                              *)
StopPerf_Unwaited == StopWindow({})
StopPerf == StopWindow({active})

Fold ==
    /\ reader \in {"folding", "draining"}
    /\ reader' = IF reader = "folding" THEN "reading" ELSE "done"
    /\ folding' = folding \ {active}
    /\ active' = None
    /\ UNCHANGED <<unit, harnessVars, output, acks, handled, answer, sampling>>

(* A line that is not text, or folded.txt that cannot be written, raises out  *)
(* of run_foreground: nobody reads on, and nobody stops perf.                 *)
ReaderFails ==
    /\ reader \in {"reading", "folding", "draining"}
    /\ reader' = "dead"
    /\ folding' = {}
    /\ UNCHANGED <<unit, harnessVars, output, acks, handled, answer, active,
                   sampling>>

(* The next unit has a watcher of its own; the directory of acknowledgements  *)
(* and a perf that nobody stopped are still there.                            *)
NextUnit ==
    /\ harness = "gone" /\ reader \in {"done", "dead"}
    /\ unit < MaxUnits
    /\ unit' = unit + 1
    /\ harness' = "between" /\ w' = 1 /\ word' = "none"
    /\ output' = << >>
    /\ reader' = "reading" /\ handled' = None /\ active' = None
    /\ answer' = "unavailable"
    /\ UNCHANGED <<acks, sampling, folding>>

HarnessStep == OpenPublished \/ PrintBegin \/ SeeAck \/ AckTimeout \/ Close
               \/ AfterWindow
ReaderStep == ReadMark \/ StartPerf \/ CreateAck \/ FillAck \/ StopPerf \/ Fold
WindowNext == HarnessStep \/ Gone \/ ReaderStep \/ ReaderFails \/ NextUnit

WindowSpec == WindowInit /\ [][WindowNext]_windowVars
FairWindowSpec == WindowSpec /\ WF_windowVars(HarnessStep) /\ WF_windowVars(ReaderStep)
                 /\ WF_windowVars(Gone /\ w > Len(Windows))

-----------------------------------------------------------------------------
(* A window whose record will say that perf was recording is sampled, by the  *)
(* perf started for it, from before it opens until it is closed: an answer    *)
(* that comes late, or was meant for another unit's window, opens none.       *)
ProfileCoversWindow ==
    harness = "open" /\ word = "recording" => Token \in sampling

(* perf is off the server by the time the unit's output has been read to its  *)
(* end, though the harness was killed with the window open.                   *)
PerfEndsWithUnit == reader = "done" => \A t \in sampling : t[1] # unit

(* A profile is of its window, and of no other: perf runs all through a       *)
(* window that says so and ends with the unit at the latest.                  *)
ProfileIsItsWindow == ProfileCoversWindow /\ PerfEndsWithUnit

(* A published window is loaded by perf, if at all, by one that is about to   *)
(* end: its end mark has been printed and is what the reader handles or comes *)
(* to next. (It is not that no published window is: the harness does not wait *)
(* for its end mark to be handled.)                                           *)
Ending(t) == \/ End(t) \in ToSet(output)
             \/ reader \in {"stopping", "folding", "dead"} /\ active = t
PublishedLoadIsEnding ==
    harness = "open" /\ Windows[w] = "published" =>
        \A t \in sampling \cup folding : t[1] = unit => Ending(t)

(* A perf that was started is stopped, unless the reader failed.              *)
PerfIsStopped == \A t \in Tokens :
    t \in sampling ~> (t \notin sampling \/ reader = "dead" \/ unit # t[1])
=============================================================================
