------------------------- MODULE IsolationRunProofs -------------------------
(***************************************************************************)
(* Proofs about IsolationRun, for any plan, any number of invocations, any  *)
(* number of kills and of Ctrl-Cs.                                          *)
(***************************************************************************)
EXTENDS IsolationRun, TLAPS

(***************************************************************************)
(* The inductive invariant, in named parts.                                 *)
(***************************************************************************)
\* Where the parent runs its children, and where it publishes.
Measuring == {"clear", "spawn", "wait", "cooldown"}
Publishing == {"publish", "writing", "check"}

Reports == [by : Processes, status : ChildStatuses]

TypeOK ==
  /\ inv \in 0 .. Invocations
  /\ pc \in {"idle", "load", "ended"} \cup Measuring \cup Publishing
  /\ item \in Nat \ {0}
  /\ results \in Seq([returncode : {0, 1}, report : BOOLEAN])
  /\ payloads \in Seq(Reports)
  /\ out \in [{"json", "latest.json", "md", "latest.md"} ->
                {NoFile, TornFile} \cup {Whole(i) : i \in 1 .. Invocations}]
  /\ outcome \in [1 .. Invocations -> {"none", "failed", "cancelled", "ok", "killed"}]
  /\ status \in {"valid", "warning", "needs-rerun", "invalid"}
  /\ cancelled \in BOOLEAN
  /\ child \in [Processes -> {"none", "measuring", "writing", "written", "zero", "nonzero"}]
  /\ dir \in [1 .. Items -> Reports \cup {NoReport, Torn}]

\* How far in its plan the parent is at each place.
Place ==
  /\ pc = "idle" <=> inv = 0
  /\ pc \in {"clear", "spawn", "wait"} => item <= Items /\ Len(results) = item - 1
  /\ pc = "cooldown" => item < Items /\ Len(results) = item
  /\ pc = "load" => item <= Items + 1
  /\ pc \in {"publish", "writing"} => item <= 4
  /\ pc = "load" \/ pc \in Publishing => Len(results) = Items
  /\ \A i \in 1 .. Invocations : i > inv \/ (i = inv /\ Running) => outcome[i] = "none"

\* Which children were started, and which of them are left to themselves.
Children ==
  /\ \A p \in Processes : child[p] # "none" => p[1] <= inv
  /\ pc \in {"clear", "spawn"} =>
       \A k \in item .. Items : child[<<inv, k>>] = "none"
  /\ pc \in {"wait", "cooldown"} =>
       \A k \in item + 1 .. Items : child[<<inv, k>>] = "none"
  /\ \A p \in Processes :
       Live(p) => (p = Me /\ pc = "wait") \/ outcome[p[1]] = "killed"

\* A whole report lies in the directory of the item of its process.
Written ==
  \A k \in 1 .. Items :
    dir[k] \notin {NoReport, Torn} =>
      dir[k].by[2] = k /\ child[dir[k].by] \in {"written", "zero", "nonzero"}

\* The items whose directories this invocation has cleared.
Cleaned ==
  {k \in 1 .. Items : \/ pc = "clear" /\ k < item
                      \/ pc \in {"spawn", "wait", "cooldown"} /\ k <= item
                      \/ pc = "load"}

\* A report of an earlier invocation in a directory that was cleared is that
\* of an orphan.
Fresh ==
  \A k \in Cleaned :
    dir[k] \notin {NoReport, Torn} =>
      dir[k].by[1] = inv \/ outcome[dir[k].by[1]] = "killed"

\* What the results say of the children.
Collected ==
  pc \in Measuring \cup {"load"} =>
    \A i \in DOMAIN results :
      /\ results[i].returncode = 0 => child[<<inv, i>>] = "zero"
      /\ results[i].report => dir[i] # NoReport

\* Which payloads were loaded.
Loaded ==
  /\ pc \in Measuring => payloads = <<>>
  /\ pc = "load" /\ (\A i \in 1 .. item - 1 : Succeeded(results[i])) =>
       Len(payloads) = item - 1
  /\ pc \in Publishing /\ Failures = {} => Len(payloads) = Items

\* The verdict of the merged report hides nothing, from the merge on.
Judged ==
  /\ pc \in Measuring \cup {"load"} => out["json"] = NoFile
  /\ pc \in Publishing \/ (inv > 0 /\ out["json"] = Whole(inv)) =>
       /\ Len(payloads) < Items => status = "invalid"
       /\ \A i \in DOMAIN payloads : Severity(payloads[i].status) <= Severity(status)

\* The files are published in their order.
Published ==
  /\ pc \in {"publish", "writing"} => \A j \in 1 .. item - 1 : out[Files[j]] = Whole(inv)
  /\ pc = "check" => \A j \in 1 .. 4 : out[Files[j]] = Whole(inv)

Inv ==
  /\ TypeOK /\ Place /\ Children /\ Written /\ Fresh /\ Collected /\ Loaded
  /\ Judged /\ Published /\ MergedIsFresh /\ SuccessIsWhole

\* Names of sets and tuples that every proof below may expand.
USE DEF Measuring, Publishing, Running, parentVars

(***************************************************************************)
(* Facts about processes, files and verdicts.                               *)
(***************************************************************************)
\* The constants have the types the proofs need.
LEMMA ConstantFact ==
  /\ Items \in Nat \ {0} /\ Invocations \in Nat
  /\ ChildStatuses \subseteq {"valid", "warning", "needs-rerun", "invalid"}
  BY IsolationAssumption DEF IsolationAssumption

\* A process is a pair of an invocation and an item.
LEMMA ProcessFact ==
  /\ \A p \in Processes : /\ p[1] \in 1 .. Invocations /\ p[2] \in 1 .. Items
                          /\ p = <<p[1], p[2]>>
  /\ \A i \in 1 .. Invocations, k \in 1 .. Items : <<i, k>> \in Processes
  BY DEF Processes

\* The child of the item the parent is at.
LEMMA MeFact ==
  ASSUME TypeOK, Place, pc \in {"clear", "spawn", "wait", "cooldown"}
  PROVE  inv \in 1 .. Invocations /\ item \in 1 .. Items /\ Me \in Processes
<1>1. inv \in 1 .. Invocations
  BY ConstantFact DEF TypeOK, Place
<1>2. item \in 1 .. Items
  BY ConstantFact DEF TypeOK, Place
<1> QED
  BY <1>1, <1>2, ProcessFact DEF Me

\* A report of a child is neither an empty file nor a torn one.
LEMMA ReportFact == Torn # NoReport /\ Torn \notin Reports /\ NoReport \notin Reports
<1>1. ASSUME NEW r \in Reports PROVE r.status \notin {"none", "torn"}
  BY <1>1, ConstantFact DEF Reports
<1>2. Torn.status = "torn" /\ NoReport.status = "none"
  BY DEF Torn, NoReport
<1> QED
  BY <1>1, <1>2

\* Severity numbers the four statuses.
LEMMA SeverityFact ==
  /\ Severity("valid") = 1 /\ Severity("warning") = 2
  /\ Severity("needs-rerun") = 3 /\ Severity("invalid") = 4
<1>1. DOMAIN Statuses = 1 .. 4
  BY DEF Statuses
<1>2. /\ Statuses[1] = "valid" /\ Statuses[2] = "warning"
      /\ Statuses[3] = "needs-rerun" /\ Statuses[4] = "invalid"
  BY DEF Statuses
<1>3. \A i \in DOMAIN Statuses : i = 1 \/ i = 2 \/ i = 3 \/ i = 4
  BY <1>1
<1> QED
  BY <1>1, <1>2, <1>3 DEF Severity

\* combined_status returns a member of the set that no other exceeds.
LEMMA CombinedFact ==
  ASSUME NEW S \in SUBSET {"valid", "warning", "needs-rerun", "invalid"}, S # {}
  PROVE  Combined(S) \in S /\ \A t \in S : Severity(t) <= Severity(Combined(S))
<1>1. \E s \in S : \A t \in S : Severity(t) <= Severity(s)
  <2>1. CASE "invalid" \in S
    BY <2>1, SeverityFact
  <2>2. CASE "invalid" \notin S /\ "needs-rerun" \in S
    BY <2>2, SeverityFact
  <2>3. CASE "invalid" \notin S /\ "needs-rerun" \notin S /\ "warning" \in S
    BY <2>3, SeverityFact
  <2>4. CASE S = {"valid"}
    BY <2>4, SeverityFact
  <2> QED
    BY <2>1, <2>2, <2>3, <2>4
<1> QED
  BY <1>1 DEF Combined

(***************************************************************************)
(* Every part is preserved by every step.                                   *)
(***************************************************************************)
\* A step of the parent, of a child, or a stutter.
LEMMA StepCases ==
  ASSUME [Next]_vars
  PROVE  \/ Invoke \/ ClearStaleLatestFiles \/ Spawn \/ CollectChild \/ Cooldown
         \/ LoadPayload \/ Merge \/ OpenFile \/ WriteFile \/ CheckFailures
         \/ Cancel \/ Kill
         \/ \E p \in Processes : BeginWrite(p) /\ UNCHANGED parentVars
         \/ \E p \in Processes : EndWrite(p) /\ UNCHANGED parentVars
         \/ \E p \in Processes : ExitZero(p) /\ UNCHANGED parentVars
         \/ \E p \in Processes : ExitNonZero(p) /\ UNCHANGED parentVars
         \/ UNCHANGED vars
  BY DEF Next, Parent, Child, vars

\* The four files, in the order in which they are published.
LEMMA FilesFact ==
  /\ Len(Files) = 4
  /\ Files[1] = "json" /\ Files[2] = "latest.json" /\ Files[3] = "md" /\ Files[4] = "latest.md"
  BY DEF Files

\* A directory that holds a whole report names its process.
LEMMA DirFact ==
  ASSUME TypeOK, NEW k \in 1 .. Items, dir[k] \notin {NoReport, Torn}
  PROVE  dir[k] \in Reports /\ dir[k].by \in Processes
  BY DEF TypeOK, Reports

\* An invocation that ends changes its own outcome only.
LEMMA OutcomeFact ==
  ASSUME TypeOK, NEW how, outcome' = [outcome EXCEPT ![inv] = how]
  PROVE  \A i \in 1 .. Invocations : i # inv => outcome'[i] = outcome[i]
  BY DEF TypeOK

\* Fresh payloads stay fresh while children keep the way they have ended.
LEMMA FreshFact ==
  ASSUME TypeOK, MergedIsFresh, inv' = inv, payloads' = payloads,
         \A p \in Processes : child[p] = "zero" => child'[p] = "zero",
         \A i \in 1 .. Invocations : i # inv => outcome'[i] = outcome[i]
  PROVE  MergedIsFresh'
<1> SUFFICES ASSUME NEW i \in DOMAIN payloads
             PROVE  \/ payloads[i].by[1] = inv /\ child'[payloads[i].by] = "zero"
                    \/ payloads[i].by[1] < inv /\ outcome'[payloads[i].by[1]] = "killed"
  BY DEF MergedIsFresh
<1>1. payloads[i].by \in Processes
  <2>1. payloads[i] \in Reports
    BY DEF TypeOK
  <2> QED
    BY <2>1 DEF Reports
<1>2. payloads[i].by[1] \in 1 .. Invocations
  BY <1>1, ProcessFact
<1>3. inv \in Nat
  BY ConstantFact DEF TypeOK
<1> QED
  BY <1>1, <1>2, <1>3 DEF MergedIsFresh

\* A status of a set that a merged status covers.
LEMMA MergedFact ==
  ASSUME TypeOK
  PROVE  /\ MergedStatus \in {"valid", "warning", "needs-rerun", "invalid"}
         /\ Failures # {} => MergedStatus = "invalid"
         /\ \A i \in DOMAIN payloads : Severity(payloads[i].status) <= Severity(MergedStatus)
<1> DEFINE S == {payloads[i].status : i \in DOMAIN payloads} \cup ChildProcessReasons
<1>1. \A i \in DOMAIN payloads : payloads[i].status \in ChildStatuses
  <2>1. \A i \in DOMAIN payloads : payloads[i] \in Reports
    BY DEF TypeOK
  <2> QED
    BY <2>1 DEF Reports
<1>2. S \in SUBSET {"valid", "warning", "needs-rerun", "invalid"}
  BY <1>1, ConstantFact DEF ChildProcessReasons
<1>3. Failures # {} => "invalid" \in S
  BY DEF Failures, ChildProcessReasons
<1>4. \A i \in DOMAIN payloads : payloads[i].status \in S
  OBVIOUS
<1>5. MergedStatus = Combined(S)
  BY DEF MergedStatus
<1> HIDE DEF S
<1>6. CASE S = {}
  <2>1. MergedStatus = "valid"
    BY <1>5, <1>6 DEF Combined
  <2> QED
    BY <2>1, <1>3, <1>4, <1>6
<1>7. CASE S # {}
  <2>1. MergedStatus \in S /\ \A t \in S : Severity(t) <= Severity(MergedStatus)
    BY <1>2, <1>5, <1>7, CombinedFact
  <2>2. "invalid" \in S => MergedStatus = "invalid"
    BY <2>1, <1>2, SeverityFact
  <2> QED
    BY <2>1, <2>2, <1>2, <1>3, <1>4
<1> QED
  BY <1>6, <1>7

\* A step of a child changes the state of that child only, which is alive.
LEMMA ChildFact ==
  ASSUME TypeOK, NEW p \in Processes,
         BeginWrite(p) \/ EndWrite(p) \/ ExitZero(p) \/ ExitNonZero(p)
  PROVE  /\ Live(p) /\ child'[p] # "none"
         /\ \A q \in Processes : q # p => child'[q] = child[q]
<1>1. CASE BeginWrite(p)
  BY <1>1 DEF TypeOK, BeginWrite, Live
<1>2. CASE EndWrite(p)
  BY <1>2 DEF TypeOK, EndWrite, Live
<1>3. CASE ExitZero(p)
  BY <1>3 DEF TypeOK, ExitZero, Live
<1>4. CASE ExitNonZero(p)
  BY <1>4 DEF TypeOK, ExitNonZero, Live
<1> QED
  BY <1>1, <1>2, <1>3, <1>4

\* Children that are alive or have ended keep to what Children says of them.
LEMMA ChildStepFact ==
  ASSUME Inv, NEW p \in Processes, UNCHANGED parentVars,
         BeginWrite(p) \/ EndWrite(p) \/ ExitZero(p) \/ ExitNonZero(p)
  PROVE  Children'
<1>1. /\ child[p] # "none" /\ Live(p)
      /\ \A q \in Processes : q # p => child'[q] = child[q]
  BY ChildFact DEF Inv, Live
<1>2. \A q \in Processes : child'[q] # "none" => child[q] # "none"
  BY <1>1
<1>3. \A q \in Processes : Live(q)' => Live(q)
  BY <1>1 DEF Live
<1>4. \A q \in Processes : child'[q] # "none" => q[1] <= inv
  BY <1>2 DEF Inv, Children
<1>5. ASSUME NEW k \in 1 .. Items, inv \in 1 .. Invocations, child[<<inv, k>>] = "none"
      PROVE  child'[<<inv, k>>] = "none"
  BY <1>2, <1>5, ProcessFact
<1>6. pc \in {"clear", "spawn"} => \A k \in item .. Items : child'[<<inv, k>>] = "none"
  BY <1>5, MeFact, ConstantFact DEF Inv, Children
<1>7. pc \in {"wait", "cooldown"} => \A k \in item + 1 .. Items : child'[<<inv, k>>] = "none"
  BY <1>5, MeFact, ConstantFact DEF Inv, Children
<1>8. \A q \in Processes : Live(q)' => (q = Me /\ pc = "wait") \/ outcome[q[1]] = "killed"
  BY <1>3 DEF Inv, Children
<1> QED
  BY <1>4, <1>6, <1>7, <1>8 DEF Children, Me

\* Parent and children keep to the types of what they assign.
LEMMA TypeOKStep == ASSUME Inv, [Next]_vars PROVE TypeOK'
<1>1. CASE Invoke
  <2>1. inv' \in 0 .. Invocations /\ item' \in Nat \ {0} /\ pc' = "clear"
        /\ status' = "valid" /\ cancelled' = FALSE /\ UNCHANGED <<outcome, child, dir>>
    BY <1>1, ConstantFact DEF Inv, TypeOK, Invoke
  <2>3. results' \in Seq([returncode : {0, 1}, report : BOOLEAN]) /\ payloads' \in Seq(Reports)
    <3>1. results' = <<>> /\ payloads' = <<>>
      BY <1>1 DEF Invoke
    <3> QED
      BY <3>1
  <2>2. out' \in [{"json", "latest.json", "md", "latest.md"} ->
                   {NoFile, TornFile} \cup {Whole(i) : i \in 1 .. Invocations}]
    BY <1>1 DEF Inv, TypeOK, Invoke
  <2> QED
    BY <2>1, <2>2, <2>3 DEF Inv, TypeOK
<1>2. CASE ClearStaleLatestFiles
  BY <1>2, ConstantFact DEF Inv, TypeOK, Whole, ClearStaleLatestFiles, Cleared
<1>3. CASE Spawn
  BY <1>3, ConstantFact DEF Inv, TypeOK, Whole, Spawn, End
<1>4. CASE CollectChild
  BY <1>4, ConstantFact DEF Inv, TypeOK, Whole, CollectChild, ChildEnded
<1>5. CASE Cooldown
  <2>1. outcome' \in [1 .. Invocations -> {"none", "failed", "cancelled", "ok", "killed"}]
    BY <1>5 DEF Inv, TypeOK, Cooldown, End
  <2>2. pc' \in {"ended", "clear"} /\ item' \in Nat \ {0}
    BY <1>5 DEF Inv, TypeOK, Cooldown, End
  <2> QED
    BY <2>1, <2>2, <1>5 DEF Inv, TypeOK, Cooldown, End
<1>6. CASE LoadPayload
  <2>0. Succeeded(results[item]) /\ Decodes(item) => dir[item] \in Reports
    <3>1. item \in 1 .. Items /\ DOMAIN results = 1 .. Items
      BY <1>6, ConstantFact DEF Inv, TypeOK, Place, LoadPayload
    <3>2. Succeeded(results[item]) => dir[item] # NoReport
      BY <1>6, <3>1 DEF Inv, Collected, Succeeded, LoadPayload
    <3> QED
      BY <3>1, <3>2 DEF Inv, TypeOK, Decodes
  <2>1. outcome' \in [1 .. Invocations -> {"none", "failed", "cancelled", "ok", "killed"}]
    BY <1>6 DEF Inv, TypeOK, LoadPayload, End
  <2>2. payloads' \in Seq(Reports)
    <3>1. payloads \in Seq(Reports)
      BY DEF Inv, TypeOK
    <3>2. \/ payloads' = payloads
          \/ dir[item] \in Reports /\ payloads' = Append(payloads, dir[item])
      BY <1>6, <2>0 DEF LoadPayload
    <3> QED
      BY <3>1, <3>2
  <2>3. pc' \in {"load", "ended"} /\ item' \in Nat \ {0}
    BY <1>6 DEF Inv, TypeOK, LoadPayload, End
  <2> QED
    BY <2>1, <2>2, <2>3, <1>6 DEF Inv, TypeOK, LoadPayload, End
<1>7. CASE Merge
  <2>1. status' \in {"valid", "warning", "needs-rerun", "invalid"}
    BY <1>7, MergedFact DEF Inv, TypeOK, Merge
  <2>2. outcome' \in [1 .. Invocations -> {"none", "failed", "cancelled", "ok", "killed"}]
    BY <1>7 DEF Inv, TypeOK, Merge, End
  <2>3. pc' \in {"publish", "ended"} /\ item' \in Nat \ {0}
    BY <1>7 DEF Inv, TypeOK, Merge, End
  <2> QED
    BY <2>1, <2>2, <2>3, <1>7 DEF Inv, TypeOK, Merge
<1>8. CASE OpenFile
  BY <1>8, ConstantFact DEF Inv, TypeOK, Whole, OpenFile, End
<1>9. CASE WriteFile
  <2>1. inv \in 1 .. Invocations
    BY <1>9, ConstantFact DEF Inv, TypeOK, Place, WriteFile
  <2>2. out' \in [{"json", "latest.json", "md", "latest.md"} ->
                    {NoFile, TornFile} \cup {Whole(i) : i \in 1 .. Invocations}]
    BY <1>9, <2>1 DEF Inv, TypeOK, WriteFile
  <2>3. outcome' \in [1 .. Invocations -> {"none", "failed", "cancelled", "ok", "killed"}]
    BY <1>9 DEF Inv, TypeOK, WriteFile, End
  <2>4. pc' \in {"publish", "check", "ended"} /\ item' \in Nat \ {0}
    BY <1>9 DEF Inv, TypeOK, WriteFile, End
  <2> QED
    BY <2>2, <2>3, <2>4, <1>9 DEF Inv, TypeOK, WriteFile
<1>10. CASE CheckFailures
  BY <1>10, ConstantFact DEF Inv, TypeOK, Whole, CheckFailures, End
<1>11. CASE Cancel
  BY <1>11, ConstantFact DEF Inv, TypeOK, Whole, Cancel
<1>12. CASE Kill
  BY <1>12, ConstantFact DEF Inv, TypeOK, Whole, Kill, End
<1>13. ASSUME NEW p \in Processes, BeginWrite(p), UNCHANGED parentVars PROVE TypeOK'
  BY <1>13, ConstantFact DEF Inv, TypeOK, Whole, BeginWrite
<1>14. ASSUME NEW p \in Processes, EndWrite(p), UNCHANGED parentVars PROVE TypeOK'
  <2>1. \A s \in ChildStatuses : [by |-> p, status |-> s] \in Reports
    BY <1>14 DEF Reports
  <2>2. dir' \in [1 .. Items -> Reports \cup {NoReport, Torn}]
    BY <1>14, <2>1 DEF Inv, TypeOK, EndWrite
  <2>3. child' \in [Processes -> {"none", "measuring", "writing", "written", "zero", "nonzero"}]
    BY <1>14 DEF Inv, TypeOK, EndWrite
  <2> QED
    BY <2>2, <2>3, <1>14 DEF Inv, TypeOK
<1>15. ASSUME NEW p \in Processes, ExitZero(p), UNCHANGED parentVars PROVE TypeOK'
  BY <1>15, ConstantFact DEF Inv, TypeOK, Whole, ExitZero
<1>16. ASSUME NEW p \in Processes, ExitNonZero(p), UNCHANGED parentVars PROVE TypeOK'
  BY <1>16, ConstantFact DEF Inv, TypeOK, Whole, ExitNonZero
<1>17. CASE UNCHANGED vars
  BY <1>17 DEF Inv, TypeOK, Whole, vars
<1> QED
  BY <1>1, <1>2, <1>3, <1>4, <1>5, <1>6, <1>7, <1>8, <1>9, <1>10, <1>11, <1>12, <1>13,
     <1>14, <1>15, <1>16, <1>17, StepCases

\* The parent goes through its plan in order and records one result for every item.
LEMMA PlaceStep == ASSUME Inv, [Next]_vars PROVE Place'
<1>1. CASE Invoke
  BY <1>1, ConstantFact DEF Inv, Place, TypeOK, Invoke
<1>2. CASE ClearStaleLatestFiles
  BY <1>2, ConstantFact DEF Inv, Place, TypeOK, ClearStaleLatestFiles, Cleared
<1>3. CASE Spawn
  BY <1>3, ConstantFact DEF Inv, Place, TypeOK, Spawn, End
<1>4. CASE CollectChild
  BY <1>4, ConstantFact DEF Inv, Place, TypeOK, CollectChild, ChildEnded
<1>5. CASE Cooldown
  BY <1>5, ConstantFact DEF Inv, Place, TypeOK, Cooldown, End
<1>6. CASE LoadPayload
  BY <1>6, ConstantFact DEF Inv, Place, TypeOK, LoadPayload, End
<1>7. CASE Merge
  BY <1>7, ConstantFact DEF Inv, Place, TypeOK, Merge, End
<1>8. CASE OpenFile
  BY <1>8, ConstantFact DEF Inv, Place, TypeOK, OpenFile, End
<1>9. CASE WriteFile
  <2>1. inv \in 1 .. Invocations /\ item \in Nat /\ item <= 4 /\ Len(results) = Items
    BY <1>9, ConstantFact DEF Inv, TypeOK, Place, WriteFile
  <2>2. \/ pc' = "publish" /\ item' = item + 1 /\ item < 4 /\ outcome' = outcome
        \/ pc' = "check" /\ outcome' = outcome
        \/ pc' = "ended"
    BY <1>9, FilesFact DEF WriteFile, End
  <2>3. \A i \in 1 .. Invocations : i > inv \/ (i = inv /\ Running') => outcome'[i] = "none"
    <3>1. inv' = inv /\ pc = "writing"
      BY <1>9 DEF WriteFile
    <3>2. \A i \in 1 .. Invocations : i >= inv => outcome[i] = "none"
      BY <2>1, <3>1 DEF Inv, Place
    <3>3. \A i \in 1 .. Invocations : i # inv => outcome'[i] = outcome[i]
      BY <1>9, OutcomeFact DEF Inv, WriteFile, End
    <3> QED
      BY <2>1, <2>2, <3>2, <3>3
  <2> QED
    BY <1>9, <2>1, <2>2, <2>3 DEF Place, WriteFile
<1>10. CASE CheckFailures
  BY <1>10, ConstantFact DEF Inv, Place, TypeOK, CheckFailures, End
<1>11. CASE Cancel
  BY <1>11, ConstantFact DEF Inv, Place, TypeOK, Cancel
<1>12. CASE Kill
  BY <1>12, ConstantFact DEF Inv, Place, TypeOK, Kill, End
<1>13. ASSUME NEW p \in Processes, BeginWrite(p), UNCHANGED parentVars PROVE Place'
  BY <1>13, ConstantFact DEF Inv, Place, TypeOK, BeginWrite
<1>14. ASSUME NEW p \in Processes, EndWrite(p), UNCHANGED parentVars PROVE Place'
  BY <1>14, ConstantFact DEF Inv, Place, TypeOK, EndWrite
<1>15. ASSUME NEW p \in Processes, ExitZero(p), UNCHANGED parentVars PROVE Place'
  BY <1>15, ConstantFact DEF Inv, Place, TypeOK, ExitZero
<1>16. ASSUME NEW p \in Processes, ExitNonZero(p), UNCHANGED parentVars PROVE Place'
  BY <1>16, ConstantFact DEF Inv, Place, TypeOK, ExitNonZero
<1>17. CASE UNCHANGED vars
  BY <1>17 DEF Inv, Place, TypeOK, vars
<1> QED
  BY <1>1, <1>2, <1>3, <1>4, <1>5, <1>6, <1>7, <1>8, <1>9, <1>10, <1>11, <1>12, <1>13,
     <1>14, <1>15, <1>16, <1>17, StepCases

\* A child is started by its invocation, once, and left alive only by a parent that is killed.
LEMMA ChildrenStep == ASSUME Inv, [Next]_vars PROVE Children'
<1>1. CASE Invoke
  <2>1. inv \in Nat /\ inv' = inv + 1 /\ inv' \in 1 .. Invocations /\ pc' = "clear" /\ item' = 1
        /\ UNCHANGED <<child, outcome>> /\ pc # "wait"
    BY <1>1, ConstantFact DEF Inv, TypeOK, Invoke
  <2>2. \A q \in Processes : child[q] # "none" => q[1] <= inv
    BY DEF Inv, Children
  <2>3. \A q \in Processes : child[q] # "none" => q[1] <= inv'
    BY <2>1, <2>2, ProcessFact
  <2>4. \A k \in 1 .. Items : child[<<inv', k>>] = "none"
    <3> SUFFICES ASSUME NEW k \in 1 .. Items PROVE child[<<inv', k>>] = "none"
      OBVIOUS
    <3>1. <<inv', k>> \in Processes
      BY <2>1, ProcessFact
    <3> QED
      BY <3>1, <2>1, <2>2
  <2>5. \A q \in Processes : Live(q) => outcome[q[1]] = "killed"
    BY <2>1 DEF Inv, Children
  <2> QED
    BY <2>1, <2>3, <2>4, <2>5 DEF Children, Live
<1>2. CASE ClearStaleLatestFiles
  BY <1>2, ConstantFact, ProcessFact, MeFact DEF Inv, Children, TypeOK, Place, Live, Me,
     ClearStaleLatestFiles, Cleared
<1>3. CASE Spawn
  <2>1. inv \in 1 .. Invocations /\ item \in 1 .. Items /\ Me \in Processes
    BY <1>3, MeFact DEF Inv, Spawn
  <2>2. CASE child' = [child EXCEPT ![Me] = "measuring"] /\ pc' = "wait" /\ outcome' = outcome
    <3>1. UNCHANGED <<inv, item>> /\ pc = "spawn"
      BY <1>3 DEF Spawn
    <3>2. \A q \in Processes : child'[q] = IF q = Me THEN "measuring" ELSE child[q]
      BY <2>2 DEF Inv, TypeOK
    <3>3. \A q \in Processes : child'[q] # "none" => q[1] <= inv
      BY <3>2, <2>1 DEF Inv, Children, Me
    <3>4. \A k \in item + 1 .. Items : child'[<<inv, k>>] = "none"
      <4> SUFFICES ASSUME NEW k \in item + 1 .. Items PROVE child'[<<inv, k>>] = "none"
        OBVIOUS
      <4>1. k \in item .. Items /\ k \in 1 .. Items /\ k # item
        BY <2>1, ConstantFact
      <4>2. <<inv, k>> \in Processes /\ <<inv, k>> # Me
        BY <2>1, <4>1, ProcessFact DEF Me
      <4>3. child[<<inv, k>>] = "none"
        BY <3>1, <4>1 DEF Inv, Children
      <4> QED
        BY <3>2, <4>2, <4>3
    <3>5. \A q \in Processes : Live(q)' => q = Me \/ outcome[q[1]] = "killed"
      BY <3>1, <3>2 DEF Inv, Children, Live
    <3> QED
      BY <2>2, <3>1, <3>3, <3>4, <3>5 DEF Children, Me
  <2>3. CASE pc' = "ended" /\ UNCHANGED child /\ outcome' = [outcome EXCEPT ![inv] = "failed"]
    <3>1. UNCHANGED <<inv, item>> /\ pc = "spawn"
      BY <1>3 DEF Spawn
    <3>2. outcome[inv] = "none"
      BY <3>1, <2>1 DEF Inv, Place
    <3>3. \A q \in Processes : outcome[q[1]] = "killed" => outcome'[q[1]] = "killed"
      BY <2>3, <3>2, ProcessFact DEF Inv, TypeOK
    <3> QED
      BY <2>3, <3>1, <3>3 DEF Inv, Children, Live
  <2> QED
    BY <1>3, <2>2, <2>3 DEF Spawn, End
<1>4. CASE CollectChild
  BY <1>4, ConstantFact, ProcessFact, MeFact DEF Inv, Children, TypeOK, Place, Live, Me,
     CollectChild, ChildEnded
<1>5. CASE Cooldown
  BY <1>5, ConstantFact, ProcessFact, MeFact DEF Inv, Children, TypeOK, Place, Live, Me,
     Cooldown, End
<1>6. CASE LoadPayload
  BY <1>6, ConstantFact, ProcessFact, MeFact DEF Inv, Children, TypeOK, Place, Live, Me,
     LoadPayload, End
<1>7. CASE Merge
  BY <1>7, ConstantFact, ProcessFact, MeFact DEF Inv, Children, TypeOK, Place, Live, Me,
     Merge, End
<1>8. CASE OpenFile
  BY <1>8, ConstantFact, ProcessFact, MeFact DEF Inv, Children, TypeOK, Place, Live, Me,
     OpenFile, End
<1>9. CASE WriteFile
  BY <1>9, ConstantFact, ProcessFact, MeFact DEF Inv, Children, TypeOK, Place, Live, Me,
     WriteFile, End
<1>10. CASE CheckFailures
  BY <1>10, ConstantFact, ProcessFact, MeFact DEF Inv, Children, TypeOK, Place, Live, Me,
     CheckFailures, End
<1>11. CASE Cancel
  BY <1>11, ConstantFact, ProcessFact, MeFact DEF Inv, Children, TypeOK, Place, Live, Me,
     Cancel
<1>12. CASE Kill
  BY <1>12, ConstantFact, ProcessFact, MeFact DEF Inv, Children, TypeOK, Place, Live, Me,
     Kill, End
<1>13. ASSUME NEW p \in Processes, BeginWrite(p), UNCHANGED parentVars PROVE Children'
  BY <1>13, ChildStepFact
<1>14. ASSUME NEW p \in Processes, EndWrite(p), UNCHANGED parentVars PROVE Children'
  BY <1>14, ChildStepFact
<1>15. ASSUME NEW p \in Processes, ExitZero(p), UNCHANGED parentVars PROVE Children'
  BY <1>15, ChildStepFact
<1>16. ASSUME NEW p \in Processes, ExitNonZero(p), UNCHANGED parentVars PROVE Children'
  BY <1>16, ChildStepFact
<1>17. CASE UNCHANGED vars
  BY <1>17 DEF Inv, Children, TypeOK, Place, Live, Me, vars
<1> QED
  BY <1>1, <1>2, <1>3, <1>4, <1>5, <1>6, <1>7, <1>8, <1>9, <1>10, <1>11, <1>12, <1>13,
     <1>14, <1>15, <1>16, <1>17, StepCases

\* A child writes into its own directory, and a whole file after the torn one.
LEMMA WrittenStep == ASSUME Inv, [Next]_vars PROVE Written'
<1>1. CASE Invoke
  BY <1>1, ConstantFact, ProcessFact, ReportFact, MeFact DEF Inv, Written, TypeOK, Place,
     Children, Live, Me, Invoke
<1>2. CASE ClearStaleLatestFiles
  BY <1>2, ConstantFact, ProcessFact, ReportFact, MeFact DEF Inv, Written, TypeOK, Place,
     Children, Live, Me, ClearStaleLatestFiles, Cleared
<1>3. CASE Spawn
  <2>1. Me \in Processes /\ child[Me] = "none"
    BY <1>3, MeFact, ConstantFact DEF Inv, TypeOK, Children, Spawn, Me
  <2>2. dir' = dir /\ \A q \in Processes : q # Me => child'[q] = child[q]
    BY <1>3 DEF Inv, TypeOK, Spawn
  <2> SUFFICES ASSUME NEW k \in 1 .. Items, dir[k] \notin {NoReport, Torn}
               PROVE  dir[k].by[2] = k /\ child'[dir[k].by] \in {"written", "zero", "nonzero"}
    BY <2>2 DEF Written
  <2>3. dir[k].by[2] = k /\ child[dir[k].by] \in {"written", "zero", "nonzero"}
    BY DEF Inv, Written
  <2>4. dir[k].by \in Processes
    BY DirFact DEF Inv
  <2> QED
    BY <2>1, <2>2, <2>3, <2>4
<1>4. CASE CollectChild
  BY <1>4, ConstantFact, ProcessFact, ReportFact, MeFact DEF Inv, Written, TypeOK, Place,
     Children, Live, Me, CollectChild, ChildEnded
<1>5. CASE Cooldown
  BY <1>5, ConstantFact, ProcessFact, ReportFact, MeFact DEF Inv, Written, TypeOK, Place,
     Children, Live, Me, Cooldown, End
<1>6. CASE LoadPayload
  BY <1>6, ConstantFact, ProcessFact, ReportFact, MeFact DEF Inv, Written, TypeOK, Place,
     Children, Live, Me, LoadPayload, End
<1>7. CASE Merge
  BY <1>7, ConstantFact, ProcessFact, ReportFact, MeFact DEF Inv, Written, TypeOK, Place,
     Children, Live, Me, Merge, End
<1>8. CASE OpenFile
  BY <1>8, ConstantFact, ProcessFact, ReportFact, MeFact DEF Inv, Written, TypeOK, Place,
     Children, Live, Me, OpenFile, End
<1>9. CASE WriteFile
  BY <1>9, ConstantFact, ProcessFact, ReportFact, MeFact DEF Inv, Written, TypeOK, Place,
     Children, Live, Me, WriteFile, End
<1>10. CASE CheckFailures
  BY <1>10, ConstantFact, ProcessFact, ReportFact, MeFact DEF Inv, Written, TypeOK, Place,
     Children, Live, Me, CheckFailures, End
<1>11. CASE Cancel
  BY <1>11, ConstantFact, ProcessFact, ReportFact, MeFact DEF Inv, Written, TypeOK, Place,
     Children, Live, Me, Cancel
<1>12. CASE Kill
  BY <1>12, ConstantFact, ProcessFact, ReportFact, MeFact DEF Inv, Written, TypeOK, Place,
     Children, Live, Me, Kill, End
<1>13. ASSUME NEW p \in Processes, BeginWrite(p), UNCHANGED parentVars PROVE Written'
  BY <1>13, ConstantFact, ProcessFact, ReportFact, MeFact DEF Inv, Written, TypeOK, Place,
     Children, Live, Me, BeginWrite
<1>14. ASSUME NEW p \in Processes, EndWrite(p), UNCHANGED parentVars PROVE Written'
  <2>0. p[2] \in 1 .. Items
    BY <1>14, ProcessFact
  <2>1. PICK r \in {Torn} \cup {[by |-> p, status |-> s] : s \in ChildStatuses} :
          dir' = [dir EXCEPT ![p[2]] = r]
    BY <1>14 DEF EndWrite
  <2>2. dir'[p[2]] = r /\ \A k \in 1 .. Items : k # p[2] => dir'[k] = dir[k]
    BY <2>0, <2>1 DEF Inv, TypeOK
  <2>3. r = Torn \/ r.by = p
    BY <2>1
  <2>4. child'[p] = "written" /\ \A q \in Processes : q # p => child'[q] = child[q]
    BY <1>14 DEF Inv, TypeOK, EndWrite
  <2> SUFFICES ASSUME NEW k \in 1 .. Items, dir'[k] \notin {NoReport, Torn}
               PROVE  dir'[k].by[2] = k /\ child'[dir'[k].by] \in {"written", "zero", "nonzero"}
    BY DEF Written
  <2>5. CASE k = p[2]
    BY <2>2, <2>3, <2>4, <2>5
  <2>6. CASE k # p[2]
    <3>1. dir[k].by[2] = k /\ child[dir[k].by] \in {"written", "zero", "nonzero"}
      BY <2>2, <2>6 DEF Inv, Written
    <3>2. dir[k].by \in Processes
      BY <2>2, <2>6, DirFact DEF Inv
    <3> QED
      BY <2>2, <2>4, <2>6, <3>1, <3>2
  <2> QED
    BY <2>5, <2>6
<1>15. ASSUME NEW p \in Processes, ExitZero(p), UNCHANGED parentVars PROVE Written'
  BY <1>15, ConstantFact, ProcessFact, ReportFact, MeFact DEF Inv, Written, TypeOK, Place,
     Children, Live, Me, ExitZero
<1>16. ASSUME NEW p \in Processes, ExitNonZero(p), UNCHANGED parentVars PROVE Written'
  BY <1>16, ConstantFact, ProcessFact, ReportFact, MeFact DEF Inv, Written, TypeOK, Place,
     Children, Live, Me, ExitNonZero
<1>17. CASE UNCHANGED vars
  BY <1>17 DEF Inv, Written, TypeOK, Place, Children, Live, Me, vars
<1> QED
  BY <1>1, <1>2, <1>3, <1>4, <1>5, <1>6, <1>7, <1>8, <1>9, <1>10, <1>11, <1>12, <1>13,
     <1>14, <1>15, <1>16, <1>17, StepCases

\* A directory that was cleared is written by this invocation or by an orphan.
LEMMA FreshStep == ASSUME Inv, [Next]_vars PROVE Fresh'
<1>1. CASE Invoke
  BY <1>1, ConstantFact, ProcessFact, ReportFact DEF Inv, Fresh, TypeOK, Place, Children,
     Written, Live, Me, Cleaned, Invoke
<1>2. CASE ClearStaleLatestFiles
  BY <1>2, ConstantFact, ProcessFact, ReportFact DEF Inv, Fresh, TypeOK, Place, Children,
     Written, Live, Me, Cleaned, ClearStaleLatestFiles, Cleared
<1>3. CASE Spawn
  BY <1>3, ConstantFact, ProcessFact, ReportFact DEF Inv, Fresh, TypeOK, Place, Children,
     Written, Live, Me, Cleaned, Spawn, End
<1>4. CASE CollectChild
  BY <1>4, ConstantFact, ProcessFact, ReportFact DEF Inv, Fresh, TypeOK, Place, Children,
     Written, Live, Me, Cleaned, CollectChild, ChildEnded
<1>5. CASE Cooldown
  <2>1. CASE pc' = "ended"
    BY <2>1 DEF Fresh, Cleaned
  <2>2. CASE pc' = "clear" /\ item' = item + 1 /\ UNCHANGED outcome
    <3>1. pc = "cooldown" /\ UNCHANGED <<inv, dir>> /\ item \in Nat
      BY <1>5 DEF Inv, TypeOK, Cooldown
    <3>2. Cleaned' = Cleaned
      BY <2>2, <3>1 DEF Cleaned
    <3> QED
      BY <2>2, <3>1, <3>2 DEF Inv, Fresh
  <2> QED
    BY <1>5, <2>1, <2>2 DEF Cooldown, End
<1>6. CASE LoadPayload
  BY <1>6, ConstantFact, ProcessFact, ReportFact DEF Inv, Fresh, TypeOK, Place, Children,
     Written, Live, Me, Cleaned, LoadPayload, End
<1>7. CASE Merge
  BY <1>7, ConstantFact, ProcessFact, ReportFact DEF Inv, Fresh, TypeOK, Place, Children,
     Written, Live, Me, Cleaned, Merge, End
<1>8. CASE OpenFile
  BY <1>8, ConstantFact, ProcessFact, ReportFact DEF Inv, Fresh, TypeOK, Place, Children,
     Written, Live, Me, Cleaned, OpenFile, End
<1>9. CASE WriteFile
  BY <1>9, ConstantFact, ProcessFact, ReportFact DEF Inv, Fresh, TypeOK, Place, Children,
     Written, Live, Me, Cleaned, WriteFile, End
<1>10. CASE CheckFailures
  BY <1>10, ConstantFact, ProcessFact, ReportFact DEF Inv, Fresh, TypeOK, Place, Children,
     Written, Live, Me, Cleaned, CheckFailures, End
<1>11. CASE Cancel
  BY <1>11, ConstantFact, ProcessFact, ReportFact DEF Inv, Fresh, TypeOK, Place, Children,
     Written, Live, Me, Cleaned, Cancel
<1>12. CASE Kill
  BY <1>12, ConstantFact, ProcessFact, ReportFact DEF Inv, Fresh, TypeOK, Place, Children,
     Written, Live, Me, Cleaned, Kill, End
<1>13. ASSUME NEW p \in Processes, BeginWrite(p), UNCHANGED parentVars PROVE Fresh'
  BY <1>13, ConstantFact, ProcessFact, ReportFact DEF Inv, Fresh, TypeOK, Place, Children,
     Written, Live, Me, Cleaned, BeginWrite
<1>14. ASSUME NEW p \in Processes, EndWrite(p), UNCHANGED parentVars PROVE Fresh'
  <2>0. p[2] \in 1 .. Items
    BY <1>14, ProcessFact
  <2>1. PICK r \in {Torn} \cup {[by |-> p, status |-> s] : s \in ChildStatuses} :
          dir' = [dir EXCEPT ![p[2]] = r]
    BY <1>14 DEF EndWrite
  <2>2. dir'[p[2]] = r /\ \A k \in 1 .. Items : k # p[2] => dir'[k] = dir[k]
    BY <2>0, <2>1 DEF Inv, TypeOK
  <2>3. r = Torn \/ r.by = p
    BY <2>1
  <2>4. p[1] = inv \/ outcome[p[1]] = "killed"
    BY <1>14 DEF Inv, Children, Live, EndWrite, Me
  <2>5. Cleaned' = Cleaned /\ UNCHANGED <<inv, outcome>>
    BY <1>14 DEF Cleaned
  <2> SUFFICES ASSUME NEW k \in Cleaned, dir'[k] \notin {NoReport, Torn}
               PROVE  dir'[k].by[1] = inv \/ outcome[dir'[k].by[1]] = "killed"
    BY <2>5 DEF Fresh
  <2>6. k \in 1 .. Items
    BY DEF Cleaned
  <2>7. CASE k = p[2]
    BY <2>2, <2>3, <2>4, <2>7
  <2>8. CASE k # p[2]
    BY <2>2, <2>6, <2>8 DEF Inv, Fresh
  <2> QED
    BY <2>7, <2>8
<1>15. ASSUME NEW p \in Processes, ExitZero(p), UNCHANGED parentVars PROVE Fresh'
  BY <1>15, ConstantFact, ProcessFact, ReportFact DEF Inv, Fresh, TypeOK, Place, Children,
     Written, Live, Me, Cleaned, ExitZero
<1>16. ASSUME NEW p \in Processes, ExitNonZero(p), UNCHANGED parentVars PROVE Fresh'
  BY <1>16, ConstantFact, ProcessFact, ReportFact DEF Inv, Fresh, TypeOK, Place, Children,
     Written, Live, Me, Cleaned, ExitNonZero
<1>17. CASE UNCHANGED vars
  BY <1>17 DEF Inv, Fresh, TypeOK, Place, Children, Written, Live, Me, Cleaned, vars
<1> QED
  BY <1>1, <1>2, <1>3, <1>4, <1>5, <1>6, <1>7, <1>8, <1>9, <1>10, <1>11, <1>12, <1>13,
     <1>14, <1>15, <1>16, <1>17, StepCases

\* Results stay true of the children that have ended.
LEMMA CollectedStep == ASSUME Inv, [Next]_vars PROVE Collected'
<1>1. CASE Invoke
  BY <1>1, ConstantFact, ProcessFact, ReportFact, MeFact DEF Inv, Collected, TypeOK,
     Place, Children, Live, Me, Invoke
<1>2. CASE ClearStaleLatestFiles
  BY <1>2, ConstantFact, ProcessFact, ReportFact, MeFact DEF Inv, Collected, TypeOK,
     Place, Children, Live, Me, ClearStaleLatestFiles, Cleared
<1>3. CASE Spawn
  BY <1>3, ConstantFact, ProcessFact, ReportFact, MeFact DEF Inv, Collected, TypeOK,
     Place, Children, Live, Me, Spawn, End
<1>4. CASE CollectChild
  <2>1. inv \in 1 .. Invocations /\ item \in 1 .. Items /\ Len(results) = item - 1 /\ pc = "wait"
    BY <1>4, MeFact DEF Inv, Place, CollectChild
  <2>2. UNCHANGED <<inv, child, dir>>
    BY <1>4 DEF CollectChild
  <2> DEFINE r == [returncode |-> IF child[Me] = "zero" THEN 0 ELSE 1,
                   report |-> dir[item] # NoReport]
  <2>3. results' = Append(results, r)
    BY <1>4 DEF CollectChild
  <2>4. r.returncode = 0 => child[<<inv, item>>] = "zero"
    BY DEF Me
  <2>5. r.report => dir[item] # NoReport
    OBVIOUS
  <2> HIDE DEF r
  <2>6. /\ DOMAIN results' = 1 .. item /\ results'[item] = r
        /\ \A i \in 1 .. item - 1 : results'[i] = results[i] /\ i \in DOMAIN results
    BY <2>1, <2>3 DEF Inv, TypeOK
  <2> SUFFICES ASSUME NEW i \in 1 .. item
               PROVE  /\ results'[i].returncode = 0 => child[<<inv, i>>] = "zero"
                      /\ results'[i].report => dir[i] # NoReport
    BY <2>2, <2>6 DEF Collected
  <2>7. CASE i = item
    BY <2>4, <2>5, <2>6, <2>7
  <2>8. CASE i \in 1 .. item - 1
    BY <2>1, <2>6, <2>8 DEF Inv, Collected
  <2> QED
    BY <2>1, <2>7, <2>8
<1>5. CASE Cooldown
  BY <1>5, ConstantFact, ProcessFact, ReportFact, MeFact DEF Inv, Collected, TypeOK,
     Place, Children, Live, Me, Cooldown, End
<1>6. CASE LoadPayload
  BY <1>6, ConstantFact, ProcessFact, ReportFact, MeFact DEF Inv, Collected, TypeOK,
     Place, Children, Live, Me, LoadPayload, End
<1>7. CASE Merge
  BY <1>7, ConstantFact, ProcessFact, ReportFact, MeFact DEF Inv, Collected, TypeOK,
     Place, Children, Live, Me, Merge, End
<1>8. CASE OpenFile
  BY <1>8, ConstantFact, ProcessFact, ReportFact, MeFact DEF Inv, Collected, TypeOK,
     Place, Children, Live, Me, OpenFile, End
<1>9. CASE WriteFile
  BY <1>9, ConstantFact, ProcessFact, ReportFact, MeFact DEF Inv, Collected, TypeOK,
     Place, Children, Live, Me, WriteFile, End
<1>10. CASE CheckFailures
  BY <1>10, ConstantFact, ProcessFact, ReportFact, MeFact DEF Inv, Collected, TypeOK,
     Place, Children, Live, Me, CheckFailures, End
<1>11. CASE Cancel
  BY <1>11, ConstantFact, ProcessFact, ReportFact, MeFact DEF Inv, Collected, TypeOK,
     Place, Children, Live, Me, Cancel
<1>12. CASE Kill
  BY <1>12, ConstantFact, ProcessFact, ReportFact, MeFact DEF Inv, Collected, TypeOK,
     Place, Children, Live, Me, Kill, End
<1>13. ASSUME NEW p \in Processes, BeginWrite(p), UNCHANGED parentVars PROVE Collected'
  BY <1>13, ConstantFact, ProcessFact, ReportFact, MeFact DEF Inv, Collected, TypeOK,
     Place, Children, Live, Me, BeginWrite
<1>14. ASSUME NEW p \in Processes, EndWrite(p), UNCHANGED parentVars PROVE Collected'
  <2>0. p[2] \in 1 .. Items
    BY <1>14, ProcessFact
  <2>1. PICK r \in {Torn} \cup {[by |-> p, status |-> s] : s \in ChildStatuses} :
          dir' = [dir EXCEPT ![p[2]] = r]
    BY <1>14 DEF EndWrite
  <2>2. dir'[p[2]] = r /\ \A k \in 1 .. Items : k # p[2] => dir'[k] = dir[k]
    BY <2>0, <2>1 DEF Inv, TypeOK
  <2>3. r = Torn \/ r.by = p
    BY <2>1
  <2>4. \A i \in 1 .. Items : dir[i] # NoReport => dir'[i] # NoReport
    <3>1. r # NoReport
      BY <2>1, <2>3, ReportFact, ProcessFact DEF Reports
    <3> QED
      BY <2>2, <3>1
  <2>5. \A q \in Processes : child[q] = "zero" => child'[q] = "zero"
    BY <1>14 DEF Inv, TypeOK, EndWrite
  <2>6. UNCHANGED <<inv, pc, results>>
    BY <1>14
  <2> SUFFICES ASSUME pc \in Measuring \cup {"load"}, NEW i \in DOMAIN results
               PROVE  /\ results[i].returncode = 0 => child'[<<inv, i>>] = "zero"
                      /\ results[i].report => dir'[i] # NoReport
    BY <2>6 DEF Collected
  <2>7. i \in 1 .. Items /\ <<inv, i>> \in Processes
    <3>1. inv \in 1 .. Invocations /\ Len(results) <= Items
      BY ConstantFact DEF Inv, TypeOK, Place
    <3>2. i \in 1 .. Items
      BY <3>1, ConstantFact DEF Inv, TypeOK
    <3> QED
      BY <3>1, <3>2, ProcessFact
  <2> QED
    BY <2>4, <2>5, <2>7 DEF Inv, Collected
<1>15. ASSUME NEW p \in Processes, ExitZero(p), UNCHANGED parentVars PROVE Collected'
  <2>1. \A q \in Processes : child[q] = "zero" => child'[q] = "zero"
    BY <1>15, ChildFact DEF Inv, Live
  <2>2. UNCHANGED <<inv, pc, results, dir>>
    BY <1>15 DEF ExitZero
  <2>3. pc \in Measuring \cup {"load"} =>
          \A i \in DOMAIN results : <<inv, i>> \in Processes
    <3>1. pc \in Measuring \cup {"load"} => inv \in 1 .. Invocations /\ Len(results) <= Items
      BY ConstantFact DEF Inv, TypeOK, Place
    <3> QED
      BY <3>1, ProcessFact, ConstantFact DEF Inv, TypeOK
  <2> QED
    BY <2>1, <2>2, <2>3 DEF Inv, Collected
<1>16. ASSUME NEW p \in Processes, ExitNonZero(p), UNCHANGED parentVars PROVE Collected'
  <2>1. \A q \in Processes : child[q] = "zero" => child'[q] = "zero"
    BY <1>16, ChildFact DEF Inv, Live
  <2>2. UNCHANGED <<inv, pc, results, dir>>
    BY <1>16 DEF ExitNonZero
  <2>3. pc \in Measuring \cup {"load"} =>
          \A i \in DOMAIN results : <<inv, i>> \in Processes
    <3>1. pc \in Measuring \cup {"load"} => inv \in 1 .. Invocations /\ Len(results) <= Items
      BY ConstantFact DEF Inv, TypeOK, Place
    <3> QED
      BY <3>1, ProcessFact, ConstantFact DEF Inv, TypeOK
  <2> QED
    BY <2>1, <2>2, <2>3 DEF Inv, Collected
<1>17. CASE UNCHANGED vars
  BY <1>17 DEF Inv, Collected, TypeOK, Place, Children, Live, Me, vars
<1> QED
  BY <1>1, <1>2, <1>3, <1>4, <1>5, <1>6, <1>7, <1>8, <1>9, <1>10, <1>11, <1>12, <1>13,
     <1>14, <1>15, <1>16, <1>17, StepCases

\* A payload is loaded for every child that has succeeded.
LEMMA LoadedStep == ASSUME Inv, [Next]_vars PROVE Loaded'
<1>1. CASE Invoke
  BY <1>1, ConstantFact DEF Inv, Loaded, TypeOK, Place, Failures, Succeeded, Invoke
<1>2. CASE ClearStaleLatestFiles
  BY <1>2, ConstantFact DEF Inv, Loaded, TypeOK, Place, Failures, Succeeded,
     ClearStaleLatestFiles, Cleared
<1>3. CASE Spawn
  BY <1>3, ConstantFact DEF Inv, Loaded, TypeOK, Place, Failures, Succeeded, Spawn, End
<1>4. CASE CollectChild
  BY <1>4, ConstantFact DEF Inv, Loaded, TypeOK, Place, Failures, Succeeded, CollectChild,
     ChildEnded
<1>5. CASE Cooldown
  BY <1>5, ConstantFact DEF Inv, Loaded, TypeOK, Place, Failures, Succeeded, Cooldown, End
<1>6. CASE LoadPayload
  BY <1>6, ConstantFact DEF Inv, Loaded, TypeOK, Place, Failures, Succeeded, LoadPayload,
     End
<1>7. CASE Merge
  <2>1. UNCHANGED <<results, payloads>> /\ pc' \in {"publish", "ended"}
    BY <1>7 DEF Merge, End
  <2>2. DOMAIN results = 1 .. Items /\ item - 1 = Items /\ pc = "load"
    BY <1>7, ConstantFact DEF Inv, TypeOK, Place, Merge
  <2>3. Failures = {} => \A i \in 1 .. item - 1 : Succeeded(results[i])
    BY <2>2 DEF Failures
  <2>4. Failures = {} => Len(payloads) = Items
    BY <2>2, <2>3 DEF Inv, Loaded
  <2> QED
    BY <2>1, <2>4 DEF Loaded, Failures, Succeeded
<1>8. CASE OpenFile
  BY <1>8, ConstantFact DEF Inv, Loaded, TypeOK, Place, Failures, Succeeded, OpenFile, End
<1>9. CASE WriteFile
  BY <1>9, ConstantFact DEF Inv, Loaded, TypeOK, Place, Failures, Succeeded, WriteFile,
     End
<1>10. CASE CheckFailures
  BY <1>10, ConstantFact DEF Inv, Loaded, TypeOK, Place, Failures, Succeeded,
     CheckFailures, End
<1>11. CASE Cancel
  BY <1>11, ConstantFact DEF Inv, Loaded, TypeOK, Place, Failures, Succeeded, Cancel
<1>12. CASE Kill
  BY <1>12, ConstantFact DEF Inv, Loaded, TypeOK, Place, Failures, Succeeded, Kill, End
<1>13. ASSUME NEW p \in Processes, BeginWrite(p), UNCHANGED parentVars PROVE Loaded'
  BY <1>13, ConstantFact DEF Inv, Loaded, TypeOK, Place, Failures, Succeeded, BeginWrite
<1>14. ASSUME NEW p \in Processes, EndWrite(p), UNCHANGED parentVars PROVE Loaded'
  BY <1>14, ConstantFact DEF Inv, Loaded, TypeOK, Place, Failures, Succeeded, EndWrite
<1>15. ASSUME NEW p \in Processes, ExitZero(p), UNCHANGED parentVars PROVE Loaded'
  BY <1>15, ConstantFact DEF Inv, Loaded, TypeOK, Place, Failures, Succeeded, ExitZero
<1>16. ASSUME NEW p \in Processes, ExitNonZero(p), UNCHANGED parentVars PROVE Loaded'
  BY <1>16, ConstantFact DEF Inv, Loaded, TypeOK, Place, Failures, Succeeded, ExitNonZero
<1>17. CASE UNCHANGED vars
  BY <1>17 DEF Inv, Loaded, TypeOK, Place, Failures, Succeeded, vars
<1> QED
  BY <1>1, <1>2, <1>3, <1>4, <1>5, <1>6, <1>7, <1>8, <1>9, <1>10, <1>11, <1>12, <1>13,
     <1>14, <1>15, <1>16, <1>17, StepCases

\* The verdict is computed from all payloads and results before the first file is written.
LEMMA JudgedStep == ASSUME Inv, [Next]_vars PROVE Judged'
<1>1. CASE Invoke
  BY <1>1, ConstantFact DEF Inv, Judged, TypeOK, Place, Loaded, NoFile, TornFile, Whole,
     Invoke
<1>2. CASE ClearStaleLatestFiles
  BY <1>2, ConstantFact DEF Inv, Judged, TypeOK, Place, Loaded, NoFile, TornFile, Whole,
     ClearStaleLatestFiles, Cleared
<1>3. CASE Spawn
  BY <1>3, ConstantFact DEF Inv, Judged, TypeOK, Place, Loaded, NoFile, TornFile, Whole,
     Spawn, End
<1>4. CASE CollectChild
  BY <1>4, ConstantFact DEF Inv, Judged, TypeOK, Place, Loaded, NoFile, TornFile, Whole,
     CollectChild, ChildEnded
<1>5. CASE Cooldown
  BY <1>5, ConstantFact DEF Inv, Judged, TypeOK, Place, Loaded, NoFile, TornFile, Whole,
     Cooldown, End
<1>6. CASE LoadPayload
  BY <1>6, ConstantFact DEF Inv, Judged, TypeOK, Place, Loaded, NoFile, TornFile, Whole,
     LoadPayload, End
<1>7. CASE Merge
  <2>1. UNCHANGED <<inv, out, payloads, results>> /\ pc = "load" /\ pc' \in {"publish", "ended"}
    BY <1>7 DEF Merge, End
  <2>2. out["json"] = NoFile /\ NoFile # Whole(inv)
    BY <2>1 DEF Inv, Judged, NoFile, Whole
  <2>3. CASE pc' = "ended"
    BY <2>1, <2>2, <2>3 DEF Judged
  <2>4. CASE pc' = "publish"
    <3>1. status' = MergedStatus
      BY <1>7, <2>4 DEF Merge, End
    <3>2. Failures = {} => Len(payloads) = Items
      <4>1. Loaded' /\ Failures' = Failures
        BY <2>1, LoadedStep, <1>7 DEF Next, Parent, Failures, Succeeded
      <4> QED
        BY <4>1, <2>1, <2>4 DEF Loaded
    <3>3. Len(payloads) < Items => status' = "invalid"
      BY <3>1, <3>2, MergedFact, ConstantFact DEF Inv
    <3>4. \A i \in DOMAIN payloads : Severity(payloads[i].status) <= Severity(status')
      BY <3>1, MergedFact DEF Inv
    <3> QED
      BY <2>1, <2>4, <3>3, <3>4 DEF Judged
  <2> QED
    BY <2>1, <2>3, <2>4
<1>8. CASE OpenFile
  BY <1>8, ConstantFact DEF Inv, Judged, TypeOK, Place, Loaded, NoFile, TornFile, Whole,
     OpenFile, End
<1>9. CASE WriteFile
  BY <1>9, ConstantFact DEF Inv, Judged, TypeOK, Place, Loaded, NoFile, TornFile, Whole,
     WriteFile, End
<1>10. CASE CheckFailures
  BY <1>10, ConstantFact DEF Inv, Judged, TypeOK, Place, Loaded, NoFile, TornFile, Whole,
     CheckFailures, End
<1>11. CASE Cancel
  BY <1>11, ConstantFact DEF Inv, Judged, TypeOK, Place, Loaded, NoFile, TornFile, Whole,
     Cancel
<1>12. CASE Kill
  BY <1>12, ConstantFact DEF Inv, Judged, TypeOK, Place, Loaded, NoFile, TornFile, Whole,
     Kill, End
<1>13. ASSUME NEW p \in Processes, BeginWrite(p), UNCHANGED parentVars PROVE Judged'
  BY <1>13, ConstantFact DEF Inv, Judged, TypeOK, Place, Loaded, NoFile, TornFile, Whole,
     BeginWrite
<1>14. ASSUME NEW p \in Processes, EndWrite(p), UNCHANGED parentVars PROVE Judged'
  BY <1>14, ConstantFact DEF Inv, Judged, TypeOK, Place, Loaded, NoFile, TornFile, Whole,
     EndWrite
<1>15. ASSUME NEW p \in Processes, ExitZero(p), UNCHANGED parentVars PROVE Judged'
  BY <1>15, ConstantFact DEF Inv, Judged, TypeOK, Place, Loaded, NoFile, TornFile, Whole,
     ExitZero
<1>16. ASSUME NEW p \in Processes, ExitNonZero(p), UNCHANGED parentVars PROVE Judged'
  BY <1>16, ConstantFact DEF Inv, Judged, TypeOK, Place, Loaded, NoFile, TornFile, Whole,
     ExitNonZero
<1>17. CASE UNCHANGED vars
  BY <1>17 DEF Inv, Judged, TypeOK, Place, Loaded, NoFile, TornFile, Whole, vars
<1> QED
  BY <1>1, <1>2, <1>3, <1>4, <1>5, <1>6, <1>7, <1>8, <1>9, <1>10, <1>11, <1>12, <1>13,
     <1>14, <1>15, <1>16, <1>17, StepCases

\* Every file that was passed is whole.
LEMMA PublishedStep == ASSUME Inv, [Next]_vars PROVE Published'
<1>1. CASE Invoke
  BY <1>1, ConstantFact DEF Inv, Published, TypeOK, Place, Files, Whole, Invoke
<1>2. CASE ClearStaleLatestFiles
  BY <1>2, ConstantFact DEF Inv, Published, TypeOK, Place, Files, Whole,
     ClearStaleLatestFiles, Cleared
<1>3. CASE Spawn
  BY <1>3, ConstantFact DEF Inv, Published, TypeOK, Place, Files, Whole, Spawn, End
<1>4. CASE CollectChild
  BY <1>4, ConstantFact DEF Inv, Published, TypeOK, Place, Files, Whole, CollectChild,
     ChildEnded
<1>5. CASE Cooldown
  BY <1>5, ConstantFact DEF Inv, Published, TypeOK, Place, Files, Whole, Cooldown, End
<1>6. CASE LoadPayload
  BY <1>6, ConstantFact DEF Inv, Published, TypeOK, Place, Files, Whole, LoadPayload, End
<1>7. CASE Merge
  BY <1>7, ConstantFact DEF Inv, Published, TypeOK, Place, Files, Whole, Merge, End
<1>8. CASE OpenFile
  <2>1. CASE pc' = "ended"
    BY <2>1 DEF Published
  <2>2. CASE pc' = "writing" /\ out' = [out EXCEPT ![Files[item]] = TornFile]
    <3>1. UNCHANGED <<inv, item>> /\ pc = "publish" /\ item \in 1 .. 4
      BY <1>8 DEF Inv, TypeOK, Place, OpenFile
    <3>2. \A j \in 1 .. item - 1 : Files[j] # Files[item] /\ Files[j] \in DOMAIN out
      BY <3>1, FilesFact DEF Inv, TypeOK
    <3>3. \A j \in 1 .. item - 1 : out'[Files[j]] = out[Files[j]]
      BY <2>2, <3>2 DEF Inv, TypeOK
    <3> QED
      BY <2>2, <3>1, <3>3 DEF Inv, Published
  <2> QED
    BY <1>8, <2>1, <2>2 DEF OpenFile, End
<1>9. CASE WriteFile
  <2>1. UNCHANGED inv /\ pc = "writing" /\ item \in 1 .. 4
    BY <1>9 DEF Inv, TypeOK, Place, WriteFile
  <2>2. CASE pc' = "ended"
    BY <2>2 DEF Published
  <2>3. CASE out' = [out EXCEPT ![Files[item]] = Whole(inv)]
    <3>1. \A j \in 1 .. 4 : Files[j] \in DOMAIN out
      BY FilesFact DEF Inv, TypeOK
    <3>2. \A j \in 1 .. item - 1 : out[Files[j]] = Whole(inv)
      BY <2>1 DEF Inv, Published
    <3>3. \A j \in 1 .. item : out'[Files[j]] = Whole(inv)
      <4> SUFFICES ASSUME NEW j \in 1 .. item PROVE out'[Files[j]] = Whole(inv)
        OBVIOUS
      <4>1. j \in 1 .. 4 /\ (j = item \/ j \in 1 .. item - 1)
        BY <2>1
      <4>2. CASE j = item
        BY <4>1, <4>2, <2>3, <3>1 DEF Inv, TypeOK
      <4>3. CASE j \in 1 .. item - 1
        <5>1. out'[Files[j]] \in {Whole(inv), out[Files[j]]}
          BY <4>1, <2>3, <3>1 DEF Inv, TypeOK
        <5> QED
          BY <4>3, <3>2, <5>1
      <4> QED
        BY <4>1, <4>2, <4>3
    <3>4. \/ pc' = "publish" /\ item' = item + 1
          \/ pc' = "check" /\ item = 4
          \/ pc' = "ended"
      BY <1>9, <2>1, FilesFact DEF WriteFile, End
    <3> QED
      BY <2>1, <3>3, <3>4 DEF Published
  <2> QED
    BY <1>9, <2>2, <2>3 DEF WriteFile, End
<1>10. CASE CheckFailures
  BY <1>10, ConstantFact DEF Inv, Published, TypeOK, Place, Files, Whole, CheckFailures,
     End
<1>11. CASE Cancel
  BY <1>11, ConstantFact DEF Inv, Published, TypeOK, Place, Files, Whole, Cancel
<1>12. CASE Kill
  BY <1>12, ConstantFact DEF Inv, Published, TypeOK, Place, Files, Whole, Kill, End
<1>13. ASSUME NEW p \in Processes, BeginWrite(p), UNCHANGED parentVars PROVE Published'
  BY <1>13, ConstantFact DEF Inv, Published, TypeOK, Place, Files, Whole, BeginWrite
<1>14. ASSUME NEW p \in Processes, EndWrite(p), UNCHANGED parentVars PROVE Published'
  BY <1>14, ConstantFact DEF Inv, Published, TypeOK, Place, Files, Whole, EndWrite
<1>15. ASSUME NEW p \in Processes, ExitZero(p), UNCHANGED parentVars PROVE Published'
  BY <1>15, ConstantFact DEF Inv, Published, TypeOK, Place, Files, Whole, ExitZero
<1>16. ASSUME NEW p \in Processes, ExitNonZero(p), UNCHANGED parentVars PROVE Published'
  BY <1>16, ConstantFact DEF Inv, Published, TypeOK, Place, Files, Whole, ExitNonZero
<1>17. CASE UNCHANGED vars
  BY <1>17 DEF Inv, Published, TypeOK, Place, Files, Whole, vars
<1> QED
  BY <1>1, <1>2, <1>3, <1>4, <1>5, <1>6, <1>7, <1>8, <1>9, <1>10, <1>11, <1>12, <1>13,
     <1>14, <1>15, <1>16, <1>17, StepCases

\* A payload that is loaded is of the child that was collected, or of an orphan.
LEMMA MergedIsFreshStep == ASSUME Inv, [Next]_vars PROVE MergedIsFresh'
<1>1. CASE Invoke
  BY <1>1, ProcessFact DEF Inv, MergedIsFresh, TypeOK, Place, Children, Me, Invoke
<1>2. CASE ClearStaleLatestFiles
  BY <1>2, ProcessFact DEF Inv, MergedIsFresh, TypeOK, Place, Children, Me,
     ClearStaleLatestFiles, Cleared
<1>3. CASE Spawn
  <2>1. child[Me] = "none"
    BY <1>3, MeFact, ConstantFact DEF Inv, TypeOK, Children, Spawn, Me
  <2>2. \A q \in Processes : child[q] = "zero" => child'[q] = "zero"
    BY <1>3, <2>1 DEF Inv, TypeOK, Spawn
  <2>3. \A i \in 1 .. Invocations : i # inv => outcome'[i] = outcome[i]
    BY <1>3, OutcomeFact DEF Inv, Spawn, End
  <2> QED
    BY <1>3, <2>2, <2>3, FreshFact DEF Inv, Spawn
<1>4. CASE CollectChild
  BY <1>4, ProcessFact DEF Inv, MergedIsFresh, TypeOK, Place, Children, Me, CollectChild,
     ChildEnded
<1>5. CASE Cooldown
  <2>1. \A q \in Processes : child[q] = "zero" => child'[q] = "zero"
    BY <1>5 DEF Cooldown
  <2>2. \A i \in 1 .. Invocations : i # inv => outcome'[i] = outcome[i]
    BY <1>5, OutcomeFact DEF Inv, Cooldown, End
  <2> QED
    BY <1>5, <2>1, <2>2, FreshFact DEF Inv, Cooldown
<1>6. CASE LoadPayload
  <2>1. UNCHANGED <<inv, child>>
    BY <1>6 DEF LoadPayload
  <2>2. \A i \in 1 .. Invocations : i # inv => outcome'[i] = outcome[i]
    BY <1>6, OutcomeFact DEF Inv, LoadPayload, End
  <2>3. CASE UNCHANGED payloads
    BY <2>1, <2>2, <2>3, FreshFact DEF Inv
  <2>4. CASE Succeeded(results[item]) /\ Decodes(item) /\ payloads' = Append(payloads, dir[item])
             /\ UNCHANGED outcome
    <3>1. inv \in 1 .. Invocations /\ item \in 1 .. Items /\ item \in DOMAIN results /\ pc = "load"
      BY <1>6, ConstantFact DEF Inv, TypeOK, Place, LoadPayload
    <3>2. child[<<inv, item>>] = "zero" /\ dir[item] \notin {NoReport, Torn}
      BY <2>4, <3>1 DEF Inv, Collected, Succeeded, Decodes
    <3>3. dir[item].by \in Processes /\ dir[item].by[2] = item
      BY <3>1, <3>2, DirFact DEF Inv, Written
    <3>4. dir[item].by[1] = inv \/ outcome[dir[item].by[1]] = "killed"
      BY <3>1, <3>2 DEF Inv, Fresh, Cleaned
    <3>5. dir[item].by[1] \in 1 .. inv
      <4>1. child[dir[item].by] # "none"
        BY <3>1, <3>2 DEF Inv, Written
      <4> QED
        BY <3>3, <4>1, <3>1, ProcessFact DEF Inv, Children
    <3>6. dir[item].by[1] = inv => dir[item].by = <<inv, item>>
      BY <3>3, ProcessFact
    <3>7. \/ dir[item].by[1] = inv /\ child[dir[item].by] = "zero"
          \/ dir[item].by[1] < inv /\ outcome[dir[item].by[1]] = "killed"
      BY <3>1, <3>2, <3>4, <3>5, <3>6
    <3>8. /\ DOMAIN payloads' = 1 .. Len(payloads) + 1 /\ Len(payloads) \in Nat
          /\ payloads'[Len(payloads) + 1] = dir[item]
          /\ \A i \in 1 .. Len(payloads) : payloads'[i] = payloads[i] /\ i \in DOMAIN payloads
      BY <2>4 DEF Inv, TypeOK
    <3> SUFFICES ASSUME NEW i \in 1 .. Len(payloads) + 1
                 PROVE  \/ payloads'[i].by[1] = inv /\ child[payloads'[i].by] = "zero"
                        \/ payloads'[i].by[1] < inv /\ outcome[payloads'[i].by[1]] = "killed"
      BY <2>1, <2>4, <3>8 DEF MergedIsFresh
    <3>9. CASE i = Len(payloads) + 1
      BY <3>7, <3>8, <3>9
    <3>10. CASE i \in 1 .. Len(payloads)
      BY <3>8, <3>10 DEF Inv, MergedIsFresh
    <3> QED
      BY <3>8, <3>9, <3>10
  <2> QED
    BY <1>6, <2>3, <2>4 DEF LoadPayload
<1>7. CASE Merge
  <2>1. \A q \in Processes : child[q] = "zero" => child'[q] = "zero"
    BY <1>7 DEF Merge
  <2>2. \A i \in 1 .. Invocations : i # inv => outcome'[i] = outcome[i]
    BY <1>7, OutcomeFact DEF Inv, Merge, End
  <2> QED
    BY <1>7, <2>1, <2>2, FreshFact DEF Inv, Merge
<1>8. CASE OpenFile
  <2>1. \A q \in Processes : child[q] = "zero" => child'[q] = "zero"
    BY <1>8 DEF OpenFile
  <2>2. \A i \in 1 .. Invocations : i # inv => outcome'[i] = outcome[i]
    BY <1>8, OutcomeFact DEF Inv, OpenFile, End
  <2> QED
    BY <1>8, <2>1, <2>2, FreshFact DEF Inv, OpenFile
<1>9. CASE WriteFile
  <2>1. \A q \in Processes : child[q] = "zero" => child'[q] = "zero"
    BY <1>9 DEF WriteFile
  <2>2. \A i \in 1 .. Invocations : i # inv => outcome'[i] = outcome[i]
    BY <1>9, OutcomeFact DEF Inv, WriteFile, End
  <2> QED
    BY <1>9, <2>1, <2>2, FreshFact DEF Inv, WriteFile
<1>10. CASE CheckFailures
  BY <1>10, ProcessFact DEF Inv, MergedIsFresh, TypeOK, Place, Children, Me,
     CheckFailures, End
<1>11. CASE Cancel
  BY <1>11, ProcessFact DEF Inv, MergedIsFresh, TypeOK, Place, Children, Me, Cancel
<1>12. CASE Kill
  BY <1>12, ProcessFact DEF Inv, MergedIsFresh, TypeOK, Place, Children, Me, Kill, End
<1>13. ASSUME NEW p \in Processes, BeginWrite(p), UNCHANGED parentVars PROVE MergedIsFresh'
  BY <1>13, ProcessFact DEF Inv, MergedIsFresh, TypeOK, Place, Children, Me, BeginWrite
<1>14. ASSUME NEW p \in Processes, EndWrite(p), UNCHANGED parentVars PROVE MergedIsFresh'
  BY <1>14, ProcessFact DEF Inv, MergedIsFresh, TypeOK, Place, Children, Me, EndWrite
<1>15. ASSUME NEW p \in Processes, ExitZero(p), UNCHANGED parentVars PROVE MergedIsFresh'
  BY <1>15, ProcessFact DEF Inv, MergedIsFresh, TypeOK, Place, Children, Me, ExitZero
<1>16. ASSUME NEW p \in Processes, ExitNonZero(p), UNCHANGED parentVars PROVE MergedIsFresh'
  <2>1. \A q \in Processes : child[q] = "zero" => child'[q] = "zero"
    BY <1>16 DEF Inv, TypeOK, ExitNonZero, Live
  <2>2. \A i \in 1 .. Invocations : i # inv => outcome'[i] = outcome[i]
    BY <1>16
  <2> QED
    BY <1>16, <2>1, <2>2, FreshFact DEF Inv, ExitNonZero
<1>17. CASE UNCHANGED vars
  BY <1>17 DEF Inv, MergedIsFresh, TypeOK, Place, Children, Me, vars
<1> QED
  BY <1>1, <1>2, <1>3, <1>4, <1>5, <1>6, <1>7, <1>8, <1>9, <1>10, <1>11, <1>12, <1>13,
     <1>14, <1>15, <1>16, <1>17, StepCases

\* An invocation that returns has passed its whole plan.
LEMMA SuccessIsWholeStep == ASSUME Inv, [Next]_vars PROVE SuccessIsWhole'
<1>1. CASE Invoke
  BY <1>1, ConstantFact DEF Inv, SuccessIsWhole, TypeOK, Place, Loaded, Published, Whole,
     Files, Invoke
<1>2. CASE ClearStaleLatestFiles
  BY <1>2, ConstantFact DEF Inv, SuccessIsWhole, TypeOK, Place, Loaded, Published, Whole,
     Files, ClearStaleLatestFiles, Cleared
<1>3. CASE Spawn
  BY <1>3, ConstantFact DEF Inv, SuccessIsWhole, TypeOK, Place, Loaded, Published, Whole,
     Files, Spawn, End
<1>4. CASE CollectChild
  BY <1>4, ConstantFact DEF Inv, SuccessIsWhole, TypeOK, Place, Loaded, Published, Whole,
     Files, CollectChild, ChildEnded
<1>5. CASE Cooldown
  BY <1>5, ConstantFact DEF Inv, SuccessIsWhole, TypeOK, Place, Loaded, Published, Whole,
     Files, Cooldown, End
<1>6. CASE LoadPayload
  BY <1>6, ConstantFact DEF Inv, SuccessIsWhole, TypeOK, Place, Loaded, Published, Whole,
     Files, LoadPayload, End
<1>7. CASE Merge
  BY <1>7, ConstantFact DEF Inv, SuccessIsWhole, TypeOK, Place, Loaded, Published, Whole,
     Files, Merge, End
<1>8. CASE OpenFile
  BY <1>8, ConstantFact DEF Inv, SuccessIsWhole, TypeOK, Place, Loaded, Published, Whole,
     Files, OpenFile, End
<1>9. CASE WriteFile
  BY <1>9, ConstantFact DEF Inv, SuccessIsWhole, TypeOK, Place, Loaded, Published, Whole,
     Files, WriteFile, End
<1>10. CASE CheckFailures
  <2>1. pc = "check" /\ UNCHANGED <<inv, payloads, out, cancelled>> /\ inv \in 1 .. Invocations
    BY <1>10, ConstantFact DEF Inv, TypeOK, Place, CheckFailures
  <2>2. outcome'[inv] = "ok" => Failures = {} /\ ~cancelled
    BY <1>10, <2>1 DEF Inv, TypeOK, CheckFailures, End
  <2>3. Failures = {} => Len(payloads) = Items
    BY <2>1 DEF Inv, Loaded
  <2>4. \A f \in DOMAIN out : out[f] = Whole(inv)
    <3>1. \A j \in 1 .. 4 : out[Files[j]] = Whole(inv)
      BY <2>1 DEF Inv, Published
    <3>2. \A f \in DOMAIN out : \E j \in 1 .. 4 : f = Files[j]
      BY FilesFact DEF Inv, TypeOK
    <3> QED
      BY <3>1, <3>2
  <2> QED
    BY <2>1, <2>2, <2>3, <2>4 DEF SuccessIsWhole
<1>11. CASE Cancel
  BY <1>11, ConstantFact DEF Inv, SuccessIsWhole, TypeOK, Place, Loaded, Published, Whole,
     Files, Cancel
<1>12. CASE Kill
  BY <1>12, ConstantFact DEF Inv, SuccessIsWhole, TypeOK, Place, Loaded, Published, Whole,
     Files, Kill, End
<1>13. ASSUME NEW p \in Processes, BeginWrite(p), UNCHANGED parentVars PROVE SuccessIsWhole'
  BY <1>13, ConstantFact DEF Inv, SuccessIsWhole, TypeOK, Place, Loaded, Published, Whole,
     Files, BeginWrite
<1>14. ASSUME NEW p \in Processes, EndWrite(p), UNCHANGED parentVars PROVE SuccessIsWhole'
  BY <1>14, ConstantFact DEF Inv, SuccessIsWhole, TypeOK, Place, Loaded, Published, Whole,
     Files, EndWrite
<1>15. ASSUME NEW p \in Processes, ExitZero(p), UNCHANGED parentVars PROVE SuccessIsWhole'
  BY <1>15, ConstantFact DEF Inv, SuccessIsWhole, TypeOK, Place, Loaded, Published, Whole,
     Files, ExitZero
<1>16. ASSUME NEW p \in Processes, ExitNonZero(p), UNCHANGED parentVars PROVE SuccessIsWhole'
  BY <1>16, ConstantFact DEF Inv, SuccessIsWhole, TypeOK, Place, Loaded, Published, Whole,
     Files, ExitNonZero
<1>17. CASE UNCHANGED vars
  BY <1>17 DEF Inv, SuccessIsWhole, TypeOK, Place, Loaded, Published, Whole, Files, vars
<1> QED
  BY <1>1, <1>2, <1>3, <1>4, <1>5, <1>6, <1>7, <1>8, <1>9, <1>10, <1>11, <1>12, <1>13,
     <1>14, <1>15, <1>16, <1>17, StepCases

(***************************************************************************)
(* The theorems.                                                            *)
(***************************************************************************)
\* The invariant holds initially.
LEMMA InvInit == ASSUME Init PROVE Inv
<1>1. TypeOK
  <2>1. /\ inv \in 0 .. Invocations /\ item \in Nat \ {0}
        /\ outcome \in [1 .. Invocations -> {"none", "failed", "cancelled", "ok", "killed"}]
        /\ out \in [{"json", "latest.json", "md", "latest.md"} ->
                      {NoFile, TornFile} \cup {Whole(i) : i \in 1 .. Invocations}]
    BY ConstantFact DEF Init
  <2>2. results \in Seq([returncode : {0, 1}, report : BOOLEAN]) /\ payloads \in Seq(Reports)
    <3>1. results = <<>> /\ payloads = <<>>
      BY DEF Init
    <3> QED
      BY <3>1
  <2>3. /\ child \in [Processes -> {"none", "measuring", "writing", "written", "zero", "nonzero"}]
        /\ dir \in [1 .. Items -> Reports \cup {NoReport, Torn}]
    BY DEF Init
  <2>4. pc = "idle" /\ status = "valid" /\ cancelled = FALSE
    BY DEF Init
  <2> QED
    BY <2>1, <2>2, <2>3, <2>4 DEF TypeOK
<1>2. Place /\ Children /\ Written /\ Fresh /\ Collected /\ Loaded
  BY DEF Init, Place, Children, Live, Written, Fresh, Cleaned, Collected, Loaded
<1>3. Judged /\ Published /\ MergedIsFresh /\ SuccessIsWhole
  BY DEF Init, Judged, Published, MergedIsFresh, SuccessIsWhole
<1> QED
  BY <1>1, <1>2, <1>3 DEF Inv

\* Every step preserves it.
LEMMA InvStep == ASSUME Inv, [Next]_vars PROVE Inv'
  BY TypeOKStep, PlaceStep, ChildrenStep, WrittenStep, FreshStep, CollectedStep,
     LoadedStep, JudgedStep, PublishedStep, MergedIsFreshStep, SuccessIsWholeStep DEF Inv

\* The invariant holds in every behaviour of the invocations and their
\* children.
THEOREM Invariance == Spec => []Inv
  BY InvInit, InvStep, PTL DEF Spec

\* Every variable of parent, children and directories keeps its type.
THEOREM TypeCorrect == Spec => []TypeOK
<1>1. Inv => TypeOK
  BY DEF Inv
<1> QED
  BY <1>1, Invariance, PTL

\* Every payload of a merged report was measured by the child of this
\* invocation for its item, which exited with 0, unless an orphan of a killed
\* parent has written it.
THEOREM MergesAreFresh == Spec => []MergedIsFresh
<1>1. Inv => MergedIsFresh
  BY DEF Inv
<1> QED
  BY <1>1, Invariance, PTL

\* An invocation that returns has merged a payload of every item, has written
\* all four files and was not cancelled.
THEOREM SuccessesAreWhole == Spec => []SuccessIsWhole
<1>1. Inv => SuccessIsWhole
  BY DEF Inv
<1> QED
  BY <1>1, Invariance, PTL

\* The validity of a published report is at least as severe as that of every
\* merged child, and invalid if a child is missing.
THEOREM VerdictsAreKept == Spec => []ValidityIsKept
<1>1. Inv => ValidityIsKept
  BY DEF Inv, Judged, ValidityIsKept
<1> QED
  BY <1>1, Invariance, PTL

\* No child lives on after its invocation, unless the parent was killed.
THEOREM ChildrenEndBeforeTheirParent == Spec => []ChildrenEndFirst
<1>1. Inv => ChildrenEndFirst
  BY DEF Inv, Children, ChildrenEndFirst, Me
<1> QED
  BY <1>1, Invariance, PTL

=============================================================================
