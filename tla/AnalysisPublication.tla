------------------------ MODULE AnalysisPublication ------------------------
(***************************************************************************)
(* Sealed analysis results beside a published chain that moves: an         *)
(* investigation of the Bitcoin service stores an exposure run and then a  *)
(* risk assessment that rests on it, and readers ask whether a stored      *)
(* result is still current.                                                *)
(*                                                                         *)
(* A result is a set of rows in several tables and, inserted last, a seal. *)
(* Nothing is transactional: every query below is a step of its own, and   *)
(* between two of them the ingestion process publishes (module             *)
(* Publication) and analysts change the labels of addresses.               *)
(*                                                                         *)
(* Abstractions.  The labels of an address, with sources and reviews, are  *)
(* one version number that never returns.  A result is a fresh identifier  *)
(* and is written once.  Rows are whole tables, present or not.  Truncated *)
(* runs, which are never sealed, clusters, the semantic detector and the   *)
(* policy registry are left out.                                           *)
(***************************************************************************)
EXTENDS Integers

CONSTANTS
  Hashes, NoHash,   \* block hashes; the tip of an uninitialised source
  ParentOf,         \* header field the hash commits to
  Addresses,        \* addresses an exposure scan visits
  Subject,          \* the investigated one
  Tables, Parent,   \* output tables of a family; the one of the run or assessment itself
  Investigations,   \* fresh identifiers of investigations
  Readers,          \* API clients that inspect stored results
  MaxRevision,      \* bound on publications (TLC only; guard of Publish)
  MaxLabel          \* bound on label changes of an address (TLC only; guard of Label)

VARIABLES
  source,  \* the published checkpoint: tip and revision
  labels,  \* address -> version of its labels
  rows,    \* result -> tables that hold its rows
  failed,  \* exposure runs whose parent row was replaced by a failed one
  seals,   \* result -> its newest row in aml_analysis_publications
  at,      \* investigation -> where it is
  seen,    \* investigation -> what it has read
  facts,   \* history: investigation -> revisions its scan read facts at
  look,    \* client -> the inspection it is in
  held     \* history: has the inspected result been current since the inspection began?

stored == <<rows, failed, seals>>

vars == <<source, labels, rows, failed, seals, at, seen, facts, look, held>>

Families == {"exposure", "risk"}

Results == Families \X Investigations

Askers == Investigations \cup Readers

Source == [tip : Hashes \cup {NoHash}, revision : Nat]

\* Only initialised sources are analysed.
Snapshot == [tip : Hashes, revision : Nat]

Unread == -1

NoLook == [of |-> <<"risk", CHOOSE i \in Investigations : TRUE>>, step |-> "idle",
           source |-> [tip |-> NoHash, revision |-> 0],
           exposureSource |-> [tip |-> NoHash, revision |-> 0]]

-----------------------------------------------------------------------------
(* The views *)

Branch[h \in Hashes \cup {NoHash}] == IF h = NoHash THEN {} ELSE {h} \cup Branch[ParentOf[h]]

\* Snapshot a result was computed for: the assessment's is that of the investigation.
SnapshotOf(r) == IF r[1] = "exposure" THEN seen[r[2]].snapshot ELSE seen[r[2]].source

\* Mutant: that the block of the seal is canonical is enough.
SealVisibleByHash(r) ==
  /\ seals[r] = "complete" /\ source.tip # NoHash
  /\ SnapshotOf(r).tip \in Branch[source.tip]

\* aml_analysis_publications_visible: sealed for exactly the current checkpoint.
SealVisible(r) ==
  /\ seals[r] = "complete" /\ source.tip # NoHash
  /\ SnapshotOf(r).revision = source.revision
  /\ SnapshotOf(r).tip \in Branch[source.tip]

Shown(r) == SealVisible(r) /\ Parent \in rows[r]

\* aml_exposure_runs_visible takes the newest parent row.
ExposureVisible(i) == Shown(<<"exposure", i>>) /\ i \notin failed

\* aml_wallet_risk_assessments_visible joins the exposure run of the assessment.
RiskVisible(i) ==
  /\ Shown(<<"risk", i>>) /\ ExposureVisible(i)
  /\ seen[i].snapshot.revision = seen[i].source.revision

Visible(r) == IF r[1] = "exposure" THEN ExposureVisible(r[2]) ELSE RiskVisible(r[2])

-----------------------------------------------------------------------------
(* Checks *)

\* visibility::unchanged
Unchanged(snapshot) == source = snapshot

\* The labels of the subject are those the investigation started from.
SubjectUnchanged(i) == labels[Subject] = seen[i].subject

\* The labels of all addresses the scan visited are those it used.
LabelsUnchanged(i) == \A a \in Addresses : labels[a] = seen[i].labels[a]

\* Mutant: the parent row is taken for the whole result.
ParentCounted(r) == Parent \in rows[r]

\* The number of rows of every table is the one the writer or the parent row names.
Counted(r) == rows[r] = Tables

-----------------------------------------------------------------------------

Init ==
  /\ source \in {[tip |-> h, revision |-> 1] : h \in Hashes}
  /\ labels = [a \in Addresses |-> 0]
  /\ rows = [r \in Results |-> {}] /\ failed = {} /\ seals = [r \in Results |-> "none"]
  /\ at = [i \in Investigations |-> "idle"]
  /\ seen = [i \in Investigations |-> [source |-> source, subject |-> Unread, snapshot |-> source,
                                       labels |-> [a \in Addresses |-> Unread]]]
  /\ facts = [i \in Investigations |-> {}]
  /\ look = [c \in Askers |-> NoLook]
  /\ held = [c \in Askers |-> FALSE]

-----------------------------------------------------------------------------
(* Inspections: exposure::inspect and risk::inspect, query by query.  A check *)
(* that fails ends the inspection as not current, or as an error.             *)

\* A risk inspection starts with its own checks and then inspects the exposure run.
StartLook(c, r) ==
  look' = [look EXCEPT ![c] = [NoLook EXCEPT !.of = r,
                                 !.step = IF r[1] = "risk" THEN "source" ELSE "run"]]

Step(c, ok, next) == look' = [look EXCEPT ![c].step = IF ok THEN next ELSE "refused"]

LookSource(c) ==
  /\ look[c].step = "source"
  /\ look' = [look EXCEPT ![c].source = source, ![c].step = "seal"]

LookSeal(c) ==
  /\ look[c].step = "seal"
  /\ Step(c, RiskVisible(look[c].of[2]) /\ Counted(look[c].of) /\ seen[look[c].of[2]].source = look[c].source, "subject")

LookSubject(c) ==
  /\ look[c].step = "subject"
  /\ Step(c, SubjectUnchanged(look[c].of[2]), "run")

LookRun(c) ==
  /\ look[c].step = "run"
  /\ LET i == look[c].of[2]
     IN look' = [look EXCEPT ![c].exposureSource = source,
                   ![c].step = IF i \notin failed /\ Counted(<<"exposure", i>>)
                               THEN "runSeal" ELSE "refused"]

LookRunSeal(c) ==
  /\ look[c].step = "runSeal"
  /\ Step(c, /\ ExposureVisible(look[c].of[2])
             /\ seen[look[c].of[2]].snapshot = look[c].exposureSource, "labels")

LookLabels(c) ==
  /\ look[c].step = "labels"
  /\ Step(c, LabelsUnchanged(look[c].of[2]), "runEnd")

LookRunEnd(c) ==
  /\ look[c].step = "runEnd"
  /\ Step(c, Unchanged(look[c].exposureSource), IF look[c].of[1] = "risk" THEN "end" ELSE "current")

LookEnd(c) ==
  /\ look[c].step = "end"
  /\ Step(c, Unchanged(look[c].source), "current")

Look(c) ==
  /\ \/ LookSource(c) \/ LookSeal(c) \/ LookSubject(c) \/ LookRun(c)
     \/ LookRunSeal(c) \/ LookLabels(c) \/ LookRunEnd(c) \/ LookEnd(c)
  /\ UNCHANGED <<source, labels, stored, at, seen, facts>>

\* A reader names a stored result of another client.
Inspect(c, r) ==
  /\ c \in Readers /\ look[c].step = "idle" /\ Parent \in rows[r]
  /\ StartLook(c, r)
  /\ UNCHANGED <<source, labels, stored, at, seen, facts>>

\* The answer is sent.
Answer(c) ==
  /\ c \in Readers /\ look[c].step \in {"current", "refused"}
  /\ look' = [look EXCEPT ![c] = NoLook]
  /\ UNCHANGED <<source, labels, stored, at, seen, facts>>

-----------------------------------------------------------------------------
(* An investigation: api::investigation_with_query *)

Goto(i, place) == at' = [at EXCEPT ![i] = place]

Begin(i) ==
  /\ at[i] = "idle" /\ source.tip # NoHash
  /\ seen' = [seen EXCEPT ![i].source = source]
  /\ Goto(i, "attribution")
  /\ UNCHANGED <<source, labels, stored, facts, look>>

ReadAttribution(i) ==
  /\ at[i] = "attribution"
  /\ seen' = [seen EXCEPT ![i].subject = labels[Subject]]
  /\ Goto(i, "capture")
  /\ UNCHANGED <<source, labels, stored, facts, look>>

\* exposure::compute
CaptureSource(i) ==
  /\ at[i] = "capture" /\ source.tip # NoHash
  /\ seen' = [seen EXCEPT ![i].snapshot = source]
  /\ Goto(i, "scan")
  /\ UNCHANGED <<source, labels, stored, facts, look>>

\* The scan reads facts and labels of one address after the other.
Scan(i, a) ==
  /\ at[i] = "scan" /\ seen[i].labels[a] = Unread
  /\ seen' = [seen EXCEPT ![i].labels[a] = labels[a]]
  /\ facts' = [facts EXCEPT ![i] = @ \cup {source.revision}]
  /\ UNCHANGED <<source, labels, stored, at, look>>

CheckLabels(i) ==
  /\ at[i] = "scan" /\ \A a \in Addresses : seen[i].labels[a] # Unread
  /\ LabelsUnchanged(i)
  /\ Goto(i, "exposure check")
  /\ UNCHANGED <<source, labels, stored, seen, facts, look>>

\* publish_analysis up to its first insert.
CheckSource(i) ==
  /\ \/ at[i] = "exposure check" /\ Unchanged(seen[i].snapshot) /\ Goto(i, "exposure insert")
     \/ at[i] = "risk check" /\ Unchanged(seen[i].source) /\ Goto(i, "risk dependency")
     \/ at[i] = "risk dependency" /\ ExposureVisible(i) /\ Goto(i, "risk insert")
  /\ UNCHANGED <<source, labels, stored, seen, facts, look>>

\* The inserts of all tables, which only inspections of this very result can see.
\* Some rows may not arrive, or the process fails in between.
Insert(i, arrived) ==
  /\ \/ /\ at[i] = "exposure insert" /\ Goto(i, "exposure count")
        /\ rows' = [rows EXCEPT ![<<"exposure", i>>] = arrived]
     \/ /\ at[i] = "risk insert" /\ Goto(i, "risk count")
        /\ rows' = [rows EXCEPT ![<<"risk", i>>] = arrived]
  /\ UNCHANGED <<source, labels, failed, seals, seen, facts, look>>

Count(i) ==
  /\ \/ at[i] = "exposure count" /\ Counted(<<"exposure", i>>) /\ Goto(i, "exposure fence")
     \/ at[i] = "risk count" /\ Counted(<<"risk", i>>) /\ Goto(i, "risk fence")
  /\ UNCHANGED <<source, labels, stored, seen, facts, look>>

CheckFence(i) ==
  /\ \/ at[i] = "exposure fence" /\ Unchanged(seen[i].snapshot) /\ Goto(i, "exposure seal")
     \/ at[i] = "risk fence" /\ Unchanged(seen[i].source) /\ Goto(i, "risk seal")
  /\ UNCHANGED <<source, labels, stored, seen, facts, look>>

SealExposure(i) ==
  /\ at[i] = "exposure seal"
  /\ seals' = [seals EXCEPT ![<<"exposure", i>>] = "complete"]
  /\ Goto(i, "confirm")
  /\ UNCHANGED <<source, labels, rows, failed, seen, facts, look>>

Confirm(i) ==
  /\ at[i] = "confirm"
  /\ Goto(i, IF LabelsUnchanged(i) THEN "join" ELSE "withdraw exposure")
  /\ UNCHANGED <<source, labels, stored, seen, facts, look>>

\* Mutant: the answers are returned without comparing them.
JoinUnchecked(i) ==
  /\ at[i] = "join" /\ Goto(i, "done")
  /\ UNCHANGED <<source, labels, stored, seen, facts, look>>

\* The answers of all analyses belong together.
Join(i) ==
  /\ \/ at[i] = "join" /\ Unchanged(seen[i].source) /\ Goto(i, "join labels")
     \/ at[i] = "join labels" /\ SubjectUnchanged(i) /\ Goto(i, "record")
     \/ at[i] = "record" /\ Unchanged(seen[i].source) /\ Goto(i, "depend")
  /\ UNCHANGED <<source, labels, stored, seen, facts, look>>

\* risk::record looks at its dependencies, inspecting the exposure run.
Depend(i) ==
  /\ at[i] = "depend" /\ SubjectUnchanged(i)
  /\ StartLook(i, <<"exposure", i>>)
  /\ Goto(i, "inspect exposure")
  /\ UNCHANGED <<source, labels, stored, seen, facts>>

Depended(i) ==
  /\ at[i] = "inspect exposure" /\ look[i].step = "current"
  /\ look' = [look EXCEPT ![i] = NoLook]
  /\ Goto(i, "risk check")
  /\ UNCHANGED <<source, labels, stored, seen, facts>>

SealRisk(i) ==
  /\ at[i] = "risk seal"
  /\ seals' = [seals EXCEPT ![<<"risk", i>>] = "complete"]
  /\ StartLook(i, <<"risk", i>>)
  /\ Goto(i, "inspect risk")
  /\ UNCHANGED <<source, labels, rows, failed, seen, facts>>

Inspected(i) ==
  /\ at[i] = "inspect risk" /\ look[i].step \in {"current", "refused"}
  /\ look' = [look EXCEPT ![i] = NoLook]
  /\ Goto(i, IF look[i].step = "current" THEN "done" ELSE "withdraw risk")
  /\ UNCHANGED <<source, labels, stored, seen, facts>>

\* invalidate_analysis
Withdraw(i) ==
  /\ at[i] \in {"withdraw exposure", "withdraw risk"}
  /\ LET f == IF at[i] = "withdraw risk" THEN "risk" ELSE "exposure"
     IN seals' = [seals EXCEPT ![<<f, i>>] = "invalidated"]
  /\ Goto(i, IF at[i] = "withdraw risk" THEN "over" ELSE "failing")
  /\ UNCHANGED <<source, labels, rows, failed, seen, facts, look>>

ExposurePlaces ==
  {"capture", "scan", "exposure check", "exposure insert", "exposure count", "exposure fence",
   "exposure seal", "confirm", "withdraw exposure", "failing"}

\* A check or a query fails, the request is dropped or the process dies.  The
\* error path of exposure::compute may still replace the parent row.
Fail(i) ==
  /\ at[i] \notin {"idle", "done", "over"}
  /\ failed' \in {failed} \cup (IF at[i] \in ExposurePlaces THEN {failed \cup {i}} ELSE {})
  /\ Goto(i, "over")
  /\ look' = [look EXCEPT ![i] = NoLook]
  /\ UNCHANGED <<source, labels, rows, seals, seen, facts>>

-----------------------------------------------------------------------------
(* The environment *)

\* The ingestion process publishes a child of the tip, an ancestor or a first block.
Publish(h) ==
  /\ source.revision < MaxRevision /\ h # source.tip
  /\ \/ h \in Hashes /\ (source.tip = NoHash \/ ParentOf[h] = source.tip)
     \/ h \in Branch[source.tip] \cup {NoHash}
  /\ source' = [tip |-> h, revision |-> source.revision + 1]
  /\ UNCHANGED <<labels, stored, at, seen, facts, look>>

\* A claim, a source or a review of the address changes, or a claim's period ends.
Label(a) ==
  /\ labels[a] < MaxLabel
  /\ labels' = [labels EXCEPT ![a] = @ + 1]
  /\ UNCHANGED <<source, stored, at, seen, facts, look>>

-----------------------------------------------------------------------------

\* What an answer `current` promises of a result.
FullyCurrent(r) ==
  LET i == r[2]
  IN /\ Visible(r) /\ ExposureVisible(i)
     /\ labels = seen[i].labels
     /\ r[1] = "risk" => labels[Subject] = seen[i].subject

Looking(c) == look[c].step # "idle"

TargetCurrent(c) == Looking(c) /\ FullyCurrent(look[c].of)

Investigate(i) ==
  \/ Begin(i) \/ ReadAttribution(i) \/ CaptureSource(i)
  \/ \E a \in Addresses : Scan(i, a)
  \/ CheckLabels(i) \/ CheckSource(i)
  \/ \E t \in SUBSET Tables : Insert(i, t)
  \/ Count(i) \/ CheckFence(i) \/ SealExposure(i) \/ Confirm(i)
  \/ Join(i) \/ Depend(i) \/ Depended(i) \/ SealRisk(i) \/ Inspected(i)
  \/ Withdraw(i) \/ Fail(i)

System ==
  \/ \E i \in Investigations : Investigate(i)
  \/ \E c \in Askers : Look(c) \/ Answer(c) \/ (\E r \in Results : Inspect(c, r))
  \/ \E h \in Hashes \cup {NoHash} : Publish(h)
  \/ \E a \in Addresses : Label(a)

Next ==
  /\ System
  /\ held' = [c \in Askers |->
       Looking(c)' /\ (TargetCurrent(c)' \/ (Looking(c) /\ held[c]))]

Spec == Init /\ [][Next]_vars

-----------------------------------------------------------------------------
(* Properties *)

\* Whatever is lost, fails or dies: a result the views show has all its rows, and an
\* exposure run they show was computed from facts of one published history.
VisibleIsWhole ==
  \A r \in Results : Visible(r) =>
    /\ rows[r] = Tables
    /\ r[1] = "exposure" => facts[r[2]] = {seen[r[2]].snapshot.revision}

\* A result the views no longer show never comes back, also when a reorganisation is
\* undone.
HiddenForGood ==
  [][\A r \in Results : (seals[r] # "none" /\ ~Visible(r)) => ~Visible(r)']_vars

\* An inspection that answers `current` tells the truth about one moment between its
\* first and last query, although it reads source, seals and labels one by one.
CurrentWasTrue == \A c \in Askers : look[c].step = "current" => held[c]

\* What a finished investigation returns fits together: all facts come from the
\* history it names, and the labels shown are those the exposure scan used.
ResponseFits ==
  \A i \in Investigations : at[i] = "done" =>
    /\ facts[i] = {seen[i].source.revision} /\ seen[i].snapshot = seen[i].source
    /\ seen[i].labels[Subject] = seen[i].subject
=============================================================================
