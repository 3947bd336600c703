---------------------------- MODULE IsolationRun ----------------------------
(***************************************************************************)
(* run_isolated_benchmark: the parent runs the items of its plan, one child*)
(* process after the other, each with a directory of its own under the     *)
(* output directory; then it reads the latest.json of the children that    *)
(* succeeded, merges them, publishes the merged report, and raises if a    *)
(* child has failed.                                                       *)
(*                                                                         *)
(* The same command is run several times in one output directory, so that a*)
(* directory may hold the files of an earlier invocation.  The parent may  *)
(* be killed (SIGTERM, SIGKILL, a second Ctrl-C): its child is not, and    *)
(* goes on as an orphan next to the children of the next invocation.       *)
(***************************************************************************)
EXTENDS Naturals, Sequences

CONSTANTS
    Items,          \* length of the plan
    Identity,       \* the aggregate identity of the rows of every item
    ChildStatuses,  \* validity statuses a child may give its report
    Invocations,    \* bound: how often the command is run
    MaxKills,       \* bound: parents that are killed
    MaxCancels,     \* bound: first Ctrl-Cs
    MayRaise        \* may the operating system or a merge step raise?

(* VALIDITY_STATUSES, from the mildest to the most severe. *)
Statuses == <<"valid", "warning", "needs-rerun", "invalid">>

ASSUME IsolationAssumption ==
    /\ Items \in Nat \ {0}
    /\ DOMAIN Identity = 1..Items
    /\ ChildStatuses \in SUBSET {"valid", "warning", "needs-rerun", "invalid"}
    /\ ChildStatuses # {}
    /\ Invocations \in Nat
    /\ MaxKills \in Nat
    /\ MaxCancels \in Nat
    /\ MayRaise \in BOOLEAN

(* A child process: the invocation that has launched it, and its item. *)
Processes == (1..Invocations) \X (1..Items)

VARIABLES
    inv,        \* the current invocation, 0 before the first
    pc,         \* where its parent is
    item,       \* the item of the plan it is at
    results,    \* ChildProcessResult of every child that has ended
    payloads,   \* reports of children it has loaded
    out,        \* its two named files, and the two latest files
    outcome,    \* how every invocation has ended
    status,     \* validity of its merged report
    cancelled,  \* was the first Ctrl-C pressed in this invocation?
    child,      \* state of every child process
    dir,        \* latest.json in the directory of every item
    kills, cancels

parentVars == <<inv, pc, item, results, payloads, out, outcome, status,
                cancelled>>
vars == <<parentVars, child, dir, kills, cancels>>

Files == <<"json", "latest.json", "md", "latest.md">>

(* What a file of the parent holds: the report of an invocation, nothing,  *)
(* or what a write that has begun and not ended has left of it.            *)
NoFile == <<"none", 0>>
TornFile == <<"torn", 0>>
Whole(i) == <<"whole", i>>

(* What latest.json of a child holds: the same, or the report of a process.*)
NoReport == [by |-> <<0, 0>>, status |-> "none"]
Torn == [by |-> <<0, 0>>, status |-> "torn"]

Init ==
    /\ inv = 0
    /\ pc = "idle"
    /\ item = 1
    /\ results = <<>>
    /\ payloads = <<>>
    /\ out = [f \in {"json", "latest.json", "md", "latest.md"} |-> NoFile]
    /\ outcome = [i \in 1..Invocations |-> "none"]
    /\ status = "valid"
    /\ cancelled = FALSE
    /\ child = [p \in Processes |-> "none"]
    /\ dir = [k \in 1..Items |-> NoReport]
    /\ kills = 0
    /\ cancels = 0

-----------------------------------------------------------------------------
(* A child process p: the measurement, then its own publish_report, of     *)
(* which the parent reads latest.json only.  write_text() truncates the    *)
(* file when it opens it, and the text arrives later.                      *)

Live(p) == child[p] \in {"measuring", "writing", "written"}

BeginWrite(p) ==
    /\ child[p] = "measuring"
    /\ child' = [child EXCEPT ![p] = "writing"]
    /\ dir' = [dir EXCEPT ![p[2]] = Torn]

(* Over a longer text of another writer, the new one leaves a tail of it. *)
EndWrite(p) ==
    /\ child[p] = "writing"
    /\ child' = [child EXCEPT ![p] = "written"]
    /\ \/ \E s \in ChildStatuses :
             dir' = [dir EXCEPT ![p[2]] = [by |-> p, status |-> s]]
       \/ dir[p[2]] # Torn /\ dir' = [dir EXCEPT ![p[2]] = Torn]

(* Exit code 0, after the report, or without one when something in the     *)
(* process has ended it early.                                             *)
ExitZero(p) ==
    /\ child[p] \in {"measuring", "written"}
    /\ child' = [child EXCEPT ![p] = "zero"]
    /\ UNCHANGED dir

(* An exception, a signal, a lost interpreter, at any point. *)
ExitNonZero(p) ==
    /\ Live(p)
    /\ child' = [child EXCEPT ![p] = "nonzero"]
    /\ UNCHANGED dir

Child(p) ==
    /\ BeginWrite(p) \/ EndWrite(p) \/ ExitZero(p) \/ ExitNonZero(p)
    /\ UNCHANGED <<parentVars, kills, cancels>>

-----------------------------------------------------------------------------
(* The parent.                                                             *)

Me == <<inv, item>>

End(how) ==
    /\ pc' = "ended"
    /\ outcome' = [outcome EXCEPT ![inv] = how]

(* The command is run once more in the same output directory. *)
Invoke ==
    /\ pc \in {"idle", "ended"}
    /\ inv < Invocations
    /\ inv' = inv + 1
    /\ pc' = "clear"
    /\ item' = 1
    /\ results' = <<>>
    /\ payloads' = <<>>
    /\ out' = [out EXCEPT !["json"] = NoFile, !["md"] = NoFile]
    /\ status' = "valid"
    /\ cancelled' = FALSE
    /\ UNCHANGED <<outcome, child, dir, kills, cancels>>

(* A faulty Cleared: the files of an earlier invocation are kept. *)
Kept == dir

(* clear_stale_latest_files. *)
Cleared == [dir EXCEPT ![item] = NoReport]

ClearStaleLatestFiles ==
    /\ pc = "clear"
    /\ dir' = Cleared
    /\ pc' = "spawn"
    /\ UNCHANGED <<inv, item, results, payloads, out, outcome, status,
                   cancelled, child, kills, cancels>>

(* subprocess.Popen; an OSError ends the whole invocation. *)
Spawn ==
    /\ pc = "spawn"
    /\ \/ /\ child' = [child EXCEPT ![Me] = "measuring"]
          /\ pc' = "wait"
          /\ UNCHANGED outcome
       \/ /\ MayRaise
          /\ End("failed")
          /\ UNCHANGED child
    /\ UNCHANGED <<inv, item, results, payloads, out, status, cancelled, dir,
                   kills, cancels>>

(* A faulty ChildEnded: the report of the child is waited for. *)
ReportWritten == ~Live(Me) /\ dir[item].status \notin {"none", "torn"}

(* A faulty ChildEnded: a cancellation ends the wait. *)
ChildEndedOrCancelled == ~Live(Me) \/ cancelled

(* process.poll() is not None. *)
ChildEnded == ~Live(Me)

(* run_child_process returns: the return code, and whether a latest.json   *)
(* exists.  The parent polls with time.sleep(): a cancellation is not seen *)
(* here.                                                                   *)
CollectChild ==
    /\ pc = "wait"
    /\ ChildEnded
    /\ results' = Append(results,
           [returncode |-> IF child[Me] = "zero" THEN 0 ELSE 1,
            report |-> dir[item] # NoReport])
    /\ IF item < Items
         THEN pc' = "cooldown" /\ UNCHANGED item
         ELSE pc' = "load" /\ item' = 1
    /\ UNCHANGED <<inv, payloads, out, outcome, status, cancelled, child, dir,
                   kills, cancels>>

(* wait_between_children, the only await between two children. *)
Cooldown ==
    /\ pc = "cooldown"
    /\ IF cancelled
         THEN End("cancelled") /\ UNCHANGED item
         ELSE /\ pc' = "clear"
              /\ item' = item + 1
              /\ UNCHANGED outcome
    /\ UNCHANGED <<inv, results, payloads, out, status, cancelled, child, dir,
                   kills, cancels>>

(* The child exited with 0 and left a report. *)
Succeeded(r) == r.returncode = 0 /\ r.report

(* load_report: a file cut short is no JSON. *)
Decodes(k) == dir[k] # Torn

(* load_successful_child_payloads reads the report of the next child that  *)
(* succeeded; one that does not decode is refused.                         *)
LoadPayload ==
    /\ pc = "load"
    /\ item <= Items
    /\ \/ /\ ~Succeeded(results[item])
          /\ item' = item + 1
          /\ UNCHANGED <<pc, outcome, payloads>>
       \/ /\ Succeeded(results[item])
          /\ Decodes(item)
          /\ payloads' = Append(payloads, dir[item])
          /\ item' = item + 1
          /\ UNCHANGED <<pc, outcome>>
       \/ /\ Succeeded(results[item])
          /\ ~Decodes(item) \/ MayRaise
          /\ End("failed")
          /\ UNCHANGED <<item, payloads>>
    /\ UNCHANGED <<inv, results, out, status, cancelled, child, dir, kills,
                   cancels>>

(* validate_unique_aggregate_rows over the rows of all children. *)
UniqueRows ==
    \A i, j \in DOMAIN payloads :
        i # j => Identity[payloads[i].by[2]] # Identity[payloads[j].by[2]]

Severity(s) == CHOOSE i \in DOMAIN Statuses : Statuses[i] = s

(* combined_status: the most severe of a set of statuses. *)
Combined(S) ==
    IF S = {} THEN "valid"
    ELSE CHOOSE s \in S : \A t \in S : Severity(t) <= Severity(s)

(* child_process_reasons: a child that failed makes the report invalid. *)
ChildProcessReasons ==
    IF \E i \in DOMAIN results : ~Succeeded(results[i]) THEN {"invalid"} ELSE {}

(* A faulty MergedStatus: failed children leave no reason behind. *)
StatusOfPayloads == Combined({payloads[i].status : i \in DOMAIN payloads})

(* metadata_with_validity and combine_validity_summaries. *)
MergedStatus ==
    Combined({payloads[i].status : i \in DOMAIN payloads} \cup ChildProcessReasons)

(* The rest of write_isolation_report up to publish_report: the rows are   *)
(* unique, the timing scopes agree, the suite's finalizer and the decoder  *)
(* accept the merged report.                                               *)
Merge ==
    /\ pc = "load"
    /\ item = Items + 1
    /\ \/ /\ UniqueRows
          /\ status' = MergedStatus
          /\ pc' = "publish"
          /\ item' = 1
          /\ UNCHANGED outcome
       \/ /\ ~UniqueRows \/ MayRaise
          /\ End("failed")
          /\ UNCHANGED <<item, status>>
    /\ UNCHANGED <<inv, results, payloads, out, cancelled, child, dir, kills,
                   cancels>>

(* publish_report: every file is opened, which truncates it, and written;  *)
(* an error leaves what was written.                                       *)
OpenFile ==
    /\ pc = "publish"
    /\ \/ out' = [out EXCEPT ![Files[item]] = TornFile] /\ pc' = "writing"
          /\ UNCHANGED outcome
       \/ MayRaise /\ End("failed") /\ UNCHANGED out
    /\ UNCHANGED <<inv, item, results, payloads, status, cancelled, child, dir,
                   kills, cancels>>

WriteFile ==
    /\ pc = "writing"
    /\ \/ /\ out' = [out EXCEPT ![Files[item]] = Whole(inv)]
          /\ IF item < Len(Files) THEN pc' = "publish" /\ item' = item + 1
                                  ELSE pc' = "check" /\ UNCHANGED item
          /\ UNCHANGED outcome
       \/ MayRaise /\ End("failed") /\ UNCHANGED <<item, out>>
    /\ UNCHANGED <<inv, results, payloads, status, cancelled, child, dir,
                   kills, cancels>>

(* A faulty Failures: only return codes count. *)
NonZeroCodes == {i \in DOMAIN results : results[i].returncode # 0}

(* failed_children. *)
Failures == {i \in DOMAIN results : ~Succeeded(results[i])}

(* The invocation raises if a child has failed.  A task that was cancelled *)
(* and has not awaited since ends as cancelled when it returns.            *)
CheckFailures ==
    /\ pc = "check"
    /\ End(CASE Failures # {} -> "failed"
             [] Failures = {} /\ cancelled -> "cancelled"
             [] OTHER -> "ok")
    /\ UNCHANGED <<inv, item, results, payloads, out, status, cancelled, child,
                   dir, kills, cancels>>

Running == pc \notin {"idle", "ended"}

(* The first Ctrl-C cancels the main task, which sees it where it awaits. *)
Cancel ==
    /\ Running
    /\ ~cancelled
    /\ cancels < MaxCancels
    /\ cancels' = cancels + 1
    /\ cancelled' = TRUE
    /\ UNCHANGED <<inv, pc, item, results, payloads, out, outcome, status,
                   child, dir, kills>>

(* The parent ends where it is; nothing ends its child. *)
Kill ==
    /\ Running
    /\ kills < MaxKills
    /\ kills' = kills + 1
    /\ End("killed")
    /\ UNCHANGED <<inv, item, results, payloads, out, status, cancelled, child,
                   dir, cancels>>

Parent ==
    \/ ClearStaleLatestFiles \/ Spawn \/ CollectChild \/ Cooldown
    \/ LoadPayload \/ Merge \/ OpenFile \/ WriteFile \/ CheckFailures

Next ==
    \/ Invoke
    \/ Parent
    \/ Cancel
    \/ Kill
    \/ \E p \in Processes : Child(p)

Spec == Init /\ [][Next]_vars

(* The parent goes on, and every child ends: nothing but its own timeouts  *)
(* bounds it, for the parent waits without a deadline.                     *)
FairSpec ==
    /\ Spec
    /\ WF_vars(Parent)
    /\ \A p \in Processes : WF_vars(Child(p))

-----------------------------------------------------------------------------
(* Properties.                                                             *)

(* The merged report holds what this invocation has measured: a payload is *)
(* of its own child for that item, which exited with 0, however many       *)
(* reports of earlier invocations lie in the directories.  Only an orphan  *)
(* of a killed parent can slip its report in (clear_stale_latest_files,    *)
(* load_successful_child_payloads).                                        *)
MergedIsFresh ==
    \A i \in DOMAIN payloads :
        LET p == payloads[i].by
        IN  \/ p[1] = inv /\ child[p] = "zero"
            \/ p[1] < inv /\ outcome[p[1]] = "killed"

(* An invocation that returns has measured and merged its whole plan and   *)
(* published all of it: one payload for every item, four whole files, no   *)
(* failed child and no Ctrl-C on the way (run_isolated_benchmark).         *)
SuccessIsWhole ==
    pc = "ended" /\ inv > 0 /\ outcome[inv] = "ok" =>
        /\ Len(payloads) = Items
        /\ \A f \in DOMAIN out : out[f] = Whole(inv)
        /\ ~cancelled

(* The published validity hides nothing: it is invalid when a child failed,*)
(* and at least as severe as that of every merged child                    *)
(* (child_process_reasons, combine_validity_summaries).                    *)
ValidityIsKept ==
    inv > 0 /\ out["json"] = Whole(inv) =>
        /\ Len(payloads) < Items => status = "invalid"
        /\ \A i \in DOMAIN payloads :
              Severity(payloads[i].status) <= Severity(status)

(* A child never outlives its invocation, however that ends, unless the    *)
(* parent was killed: a Ctrl-C waits for the child.                        *)
ChildrenEndFirst ==
    \A p \in Processes :
        Live(p) => (p[1] = inv /\ Running) \/ outcome[p[1]] = "killed"

(* Every invocation ends. *)
InvocationEnds == \A i \in 1..Invocations : inv = i ~> outcome[i] # "none"
=============================================================================
