------------------------------- MODULE IncidentsProofs -------------------------------
(***************************************************************************)
(* The incident records proved, for any set of invocations and any time: no   *)
(* incident is hidden, invocations that follow each other lose nothing, and   *)
(* the log agrees with the files.                                            *)
(*                                                                           *)
(* The last two hold once nobody works on an incident; the invariants say     *)
(* what is true of it at every step before.  An incident that is not spoiled  *)
(* has at most one invocation at work, and the steps that one has left tell   *)
(* how far it is: what its copy, the file, the history and the log say to     *)
(* each other is stated for every such remainder.                            *)
(***************************************************************************)
EXTENDS Incidents, TLAPS, FiniteSetTheorems, SequenceTheorems

(***************************************************************************)
(* The remainders of what "leak report", "leak update" and "leak resolve" do. *)
(***************************************************************************)
R6 == <<"truncate", "write", "incident_created", "add", "truncate", "write">>
R5 == <<"write", "incident_created", "add", "truncate", "write">>
R4 == <<"incident_created", "add", "truncate", "write">>
R3 == <<"add", "truncate", "write">>
R2 == <<"truncate", "write">>
R1 == <<"write">>
U3 == <<"truncate", "write", "incident_updated">>
U2 == <<"write", "incident_updated">>
U1 == <<"incident_updated">>
S5 == <<"notes", "truncate", "write", "incident_updated", "incident_resolved">>
S4 == <<"truncate", "write", "incident_updated", "incident_resolved">>
S3 == <<"write", "incident_updated", "incident_resolved">>
S2 == <<"incident_updated", "incident_resolved">>
S1 == <<"incident_resolved">>

ReportsLeft == {R6, R5, R4, R3, R2, R1}
UpdatesLeft == {U3, U2, U1}
ResolvesLeft == {S5, S4, S3, S2, S1}

(***************************************************************************)
(* Who works on what.                                                        *)
(***************************************************************************)
(* The steps an invocation has left are those of one of the three commands,   *)
(* and its copy is one that command makes.                                   *)
Shape(p) ==
  \/ todo[p] = <<>>
  \/ todo[p] \in ReportsLeft /\ copy[p].asked = "open" /\ ~copy[p].resolves
  \/ todo[p] \in UpdatesLeft /\ ~copy[p].resolves /\ copy[p].report # NewReport
  \/ todo[p] \in ResolvesLeft /\ copy[p].asked = "resolved" /\ copy[p].resolves
Shaped == \A p \in Invocations : Shape(p)

(* A file that was never written holds nothing.  Unless its writers clashed,  *)
(* a file is empty while one invocation is about to fill it, and else whole.  *)
FileStands(id) ==
  /\ files[id].state = "absent" => files[id] = Absent
  /\ id \in clashed \/ \/ Filling(id) = {} /\ files[id].state \in {"absent", "whole"}
                       \/ files[id] = Empty /\ \E p \in Invocations : Filling(id) = {p}
FilesStand == \A id \in Identifiers : FileStands(id)

Alone == \A id \in Identifiers \ spoiled : \A p, q \in Working(id) : p = q

(***************************************************************************)
(* What an incident's file, history and log say of each other.               *)
(***************************************************************************)
Untouched(id) == files[id] = Absent /\ Mine(id) = {} /\ Lines(id) = {}

(* The history says of the report what the report says of itself ... *)
Says(id, r) ==
  /\ r.by = Added(id)
  /\ LastAsked(id, r.status)
  /\ r.resolvedAt <=> Resolving(id) # {}

(* ... or would say it, if the invocation that holds the copy had returned.  *)
WouldSay(id, p, c) ==
  /\ c.report.by = Added(id) \cup {p}
  /\ IF c.asked = NoStatus THEN LastAsked(id, c.report.status) ELSE c.report.status = c.asked
  /\ c.report.resolvedAt <=> c.resolves \/ Resolving(id) # {}

Kept(id) == files[id].state = "whole" /\ Says(id, files[id].report)

KeptBy(id, p) ==
  /\ todo[p] = R6 => copy[p].report = NewReport /\ (files[id] = Absent => Untouched(id))
  /\ todo[p] \in {R5, R4, R3} => copy[p].report = NewReport /\ Mine(id) = {}
  /\ todo[p] \in {R5, R1, U2, S3} => files[id] = Empty
  /\ todo[p] \in {R4, R3, U1, S2, S1} => files[id] = Whole(copy[p].report)
  /\ todo[p] \in {R2, U3, S4, S5} => files[id] # Absent
  /\ todo[p] \in {R2, R1, U3, U2, U1, S4, S3, S2, S1} => WouldSay(id, p, copy[p])
  /\ todo[p] = S5 => Kept(id) /\ copy[p].report = files[id].report

FileTells(id) ==
  /\ Working(id) = {} => Untouched(id) \/ Kept(id)
  /\ \A p \in Working(id) : KeptBy(id, p)
FileStory == \A id \in Identifiers : id \notin spoiled => FileTells(id)

Counts(id) ==
  /\ \E i \in Lines(id) : Logged(id, "incident_created") = {i}
  /\ Cardinality(Logged(id, "incident_resolved")) = Cardinality(Resolving(id))

LoggedBy(id, p) ==
  /\ todo[p] \in {R5, R4} => Lines(id) = {}
  /\ todo[p] \in {R3, R2, R1} => Counts(id) /\ LastLogged(id, "open")
  /\ todo[p] \in UpdatesLeft \cup ResolvesLeft => Counts(id)
  /\ todo[p] = S1 => LastLogged(id, copy[p].report.status)

LogTells(id) ==
  /\ Working(id) = {} => Untouched(id) \/ (Counts(id) /\ LastLogged(id, files[id].report.status))
  /\ \A p \in Working(id) : LoggedBy(id, p)
LogStory == \A id \in Identifiers : id \notin spoiled \cup unlogged => LogTells(id)

StoryInv == TypeOK /\ Shaped /\ FilesStand /\ Alone /\ FileStory /\ LogStory

-------------------------------------------------------------------------------
(* What is left to do *)

\* A sequence is the concatenation of two when it has their elements.
LEMMA Joined ==
  ASSUME NEW S, NEW s1 \in Seq(S), NEW s2 \in Seq(S), NEW t \in Seq(S),
         Len(t) = Len(s1) + Len(s2),
         \A k \in 1 .. Len(t) : t[k] = IF k <= Len(s1) THEN s1[k] ELSE s2[k - Len(s1)]
  PROVE  s1 \o s2 = t
<1>1. /\ s1 \o s2 \in Seq(S) /\ Len(s1 \o s2) = Len(s1) + Len(s2)
      /\ \A k \in 1 .. Len(s1) + Len(s2) : (s1 \o s2)[k] = IF k <= Len(s1) THEN s1[k] ELSE s2[k - Len(s1)]
  BY ConcatProperties, Zenon
<1>2. Len(s1 \o s2) = Len(t) /\ \A k \in 1 .. Len(s1 \o s2) : (s1 \o s2)[k] = t[k]
  BY <1>1
<1> QED  BY <1>1, <1>2, SeqEqual, Zenon

\* What the commands do, spelled out.
LEMMA UpdatePlan == UpdateReport = U3
<1>1. SaveReport \in Seq(Steps) /\ <<"incident_updated">> \in Seq(Steps) /\ U3 \in Seq(Steps)
  BY DEF SaveReport, U3, Steps, Actions
<1>2. Len(U3) = Len(SaveReport) + Len(<<"incident_updated">>)
  BY DEF SaveReport, U3
<1>3. \A k \in 1 .. Len(U3) : U3[k] = IF k <= Len(SaveReport) THEN SaveReport[k]
                                     ELSE <<"incident_updated">>[k - Len(SaveReport)]
  BY DEF SaveReport, U3
<1> QED  BY <1>1, <1>2, <1>3, Joined, Zenon DEF UpdateReport

LEMMA ResolvePlan == <<"notes">> \o ResolveReport = S5
<1>1. U3 \in Seq(Steps) /\ <<"incident_resolved">> \in Seq(Steps) /\ S4 \in Seq(Steps)
  BY DEF S4, U3, Steps, Actions
<1>2. Len(S4) = Len(U3) + Len(<<"incident_resolved">>)
  BY DEF S4, U3
<1>3. \A k \in 1 .. Len(S4) : S4[k] = IF k <= Len(U3) THEN U3[k] ELSE <<"incident_resolved">>[k - Len(U3)]
  BY DEF S4, U3
<1>4. ResolveReport = S4
  BY <1>1, <1>2, <1>3, Joined, UpdatePlan, Zenon DEF ResolveReport
<1>5. <<"notes">> \in Seq(Steps) /\ S5 \in Seq(Steps)
  BY DEF S5, Steps, Actions
<1>6. Len(S5) = Len(<<"notes">>) + Len(S4)
  BY DEF S5, S4
<1>7. \A k \in 1 .. Len(S5) : S5[k] = IF k <= Len(<<"notes">>) THEN <<"notes">>[k] ELSE S4[k - Len(<<"notes">>)]
  BY DEF S5, S4
<1> QED  BY <1>1, <1>4, <1>5, <1>6, <1>7, Joined, Zenon

LEMMA ReportPlan == interactiveIncidentReport = R6
<1> DEFINE x == <<"truncate", "write", "incident_created">>
           y == <<"truncate", "write", "incident_created", "add">>
<1>1. SaveReport \in Seq(Steps) /\ <<"incident_created">> \in Seq(Steps) /\ x \in Seq(Steps)
  BY DEF SaveReport, Steps, Actions
<1>2. Len(x) = Len(SaveReport) + Len(<<"incident_created">>)
  BY DEF SaveReport
<1>3. \A k \in 1 .. Len(x) : x[k] = IF k <= Len(SaveReport) THEN SaveReport[k]
                                   ELSE <<"incident_created">>[k - Len(SaveReport)]
  BY DEF SaveReport
<1>4. <<"add">> \in Seq(Steps) /\ y \in Seq(Steps)
  BY DEF Steps, Actions
<1>5. Len(y) = Len(x) + Len(<<"add">>)
  OBVIOUS
<1>6. \A k \in 1 .. Len(y) : y[k] = IF k <= Len(x) THEN x[k] ELSE <<"add">>[k - Len(x)]
  OBVIOUS
<1>7. R6 \in Seq(Steps)
  BY DEF R6, Steps, Actions
<1>8. Len(R6) = Len(y) + Len(SaveReport)
  BY DEF R6, SaveReport
<1>9. \A k \in 1 .. Len(R6) : R6[k] = IF k <= Len(y) THEN y[k] ELSE SaveReport[k - Len(y)]
  BY DEF R6, SaveReport
<1> HIDE DEF x, y
<1>10. SaveReport \o <<"incident_created">> = x
  BY <1>1, <1>2, <1>3, Joined, Zenon
<1>11. x \o <<"add">> = y
  BY <1>1, <1>4, <1>5, <1>6, Joined, Zenon
<1>12. y \o SaveReport = R6
  BY <1>1, <1>4, <1>7, <1>8, <1>9, Joined, Zenon
<1> QED  BY <1>10, <1>11, <1>12, Zenon DEF interactiveIncidentReport, CreateReport

\* The remainders are different, and none is empty.
LEMMA Distinct ==
  /\ R6 \notin {R5, R4, R3, R2, R1, U3, U2, U1, S5, S4, S3, S2, S1, <<>>}
  /\ R5 \notin {R4, R3, R2, R1, U3, U2, U1, S5, S4, S3, S2, S1, <<>>}
  /\ R4 \notin {R3, R2, R1, U3, U2, U1, S5, S4, S3, S2, S1, <<>>}
  /\ R3 \notin {R2, R1, U3, U2, U1, S5, S4, S3, S2, S1, <<>>}
  /\ R2 \notin {R1, U3, U2, U1, S5, S4, S3, S2, S1, <<>>}
  /\ R1 \notin {U3, U2, U1, S5, S4, S3, S2, S1, <<>>}
  /\ U3 \notin {U2, U1, S5, S4, S3, S2, S1, <<>>}
  /\ U2 \notin {U1, S5, S4, S3, S2, S1, <<>>}
  /\ U1 \notin {S5, S4, S3, S2, S1, <<>>}
  /\ S5 \notin {S4, S3, S2, S1, <<>>}
  /\ S4 \notin {S3, S2, S1, <<>>}
  /\ S3 \notin {S2, S1, <<>>} /\ S2 \notin {S1, <<>>} /\ S1 # <<>>
BY DEF R6, R5, R4, R3, R2, R1, U3, U2, U1, S5, S4, S3, S2, S1

\* The first step of a remainder, and what it leaves.
LEMMA Remainders ==
  /\ Head(R6) = "truncate" /\ Tail(R6) = R5 /\ Len(R6) # 1
  /\ Head(R5) = "write" /\ Tail(R5) = R4 /\ Len(R5) # 1
  /\ Head(R4) = "incident_created" /\ Tail(R4) = R3 /\ Len(R4) # 1
  /\ Head(R3) = "add" /\ Tail(R3) = R2 /\ Len(R3) # 1
  /\ Head(R2) = "truncate" /\ Tail(R2) = R1 /\ Len(R2) # 1
  /\ Head(R1) = "write" /\ Tail(R1) = <<>> /\ Len(R1) = 1
  /\ Head(U3) = "truncate" /\ Tail(U3) = U2 /\ Len(U3) # 1
  /\ Head(U2) = "write" /\ Tail(U2) = U1 /\ Len(U2) # 1
  /\ Head(U1) = "incident_updated" /\ Tail(U1) = <<>> /\ Len(U1) = 1
  /\ Head(S5) = "notes" /\ Tail(S5) = S4 /\ Len(S5) # 1
  /\ Head(S4) = "truncate" /\ Tail(S4) = S3 /\ Len(S4) # 1
  /\ Head(S3) = "write" /\ Tail(S3) = S2 /\ Len(S3) # 1
  /\ Head(S2) = "incident_updated" /\ Tail(S2) = S1 /\ Len(S2) # 1
  /\ Head(S1) = "incident_resolved" /\ Tail(S1) = <<>> /\ Len(S1) = 1
BY DEF R6, R5, R4, R3, R2, R1, U3, U2, U1, S5, S4, S3, S2, S1

\* The remainders are sequences of steps.
LEMMA RemaindersTyped == {R6, U3, S5} \subseteq Seq(Steps)
BY DEF R6, U3, S5, Steps, Actions

-------------------------------------------------------------------------------
(* One step *)

\* The remainder before and after a step, by the step that is taken.
Move(p, from, to) ==
  /\ todo[p] = from /\ todo' = [todo EXCEPT ![p] = to]
  /\ finished' = IF to = <<>> THEN Append(finished, Entry(p)) ELSE finished

Moves(p, step) ==
  \/ step = "truncate" /\ (Move(p, R6, R5) \/ Move(p, R2, R1) \/ Move(p, U3, U2) \/ Move(p, S4, S3))
  \/ step = "write" /\ (Move(p, R5, R4) \/ Move(p, R1, <<>>) \/ Move(p, U2, U1) \/ Move(p, S3, S2))
  \/ step = "add" /\ Move(p, R3, R2)
  \/ step = "notes" /\ Move(p, S5, S4)
  \/ step = "incident_created" /\ Move(p, R4, R3)
  \/ step = "incident_updated" /\ (Move(p, U1, <<>>) \/ Move(p, S2, S1))
  \/ step = "incident_resolved" /\ Move(p, S1, <<>>)

\* A step that is taken is the first of what is left.
LEMMA OneMove ==
  ASSUME NEW p \in Invocations, NEW step, Takes(p, step), NEW to,
         Tail(todo[p]) = to, Len(todo[p]) = 1 <=> to = <<>>
  PROVE  step = Head(todo[p]) /\ Move(p, todo[p], to)
BY DEF Takes, Move

\* A step that is taken is one of those moves.
LEMMA TakesMoves ==
  ASSUME Shaped, NEW p \in Invocations, NEW step, Takes(p, step)
  PROVE  Moves(p, step)
<1>1. todo[p] \in ReportsLeft \cup UpdatesLeft \cup ResolvesLeft
  BY DEF Takes, Shaped, Shape
<1>2. ASSUME todo[p] = R6 PROVE Moves(p, step)
  <2>1. Tail(R6) = R5 /\ (Len(R6) = 1 <=> R5 = <<>>) /\ Head(R6) = "truncate"
    BY Remainders, Distinct
  <2>2. step = "truncate" /\ Move(p, R6, R5)
    BY <1>2, <2>1, OneMove
  <2> QED  BY <2>2 DEF Moves
<1>3. ASSUME todo[p] = R5 PROVE Moves(p, step)
  <2>1. Tail(R5) = R4 /\ (Len(R5) = 1 <=> R4 = <<>>) /\ Head(R5) = "write"
    BY Remainders, Distinct
  <2>2. step = "write" /\ Move(p, R5, R4)
    BY <1>3, <2>1, OneMove
  <2> QED  BY <2>2 DEF Moves
<1>4. ASSUME todo[p] = R4 PROVE Moves(p, step)
  <2>1. Tail(R4) = R3 /\ (Len(R4) = 1 <=> R3 = <<>>) /\ Head(R4) = "incident_created"
    BY Remainders, Distinct
  <2>2. step = "incident_created" /\ Move(p, R4, R3)
    BY <1>4, <2>1, OneMove
  <2> QED  BY <2>2 DEF Moves
<1>5. ASSUME todo[p] = R3 PROVE Moves(p, step)
  <2>1. Tail(R3) = R2 /\ (Len(R3) = 1 <=> R2 = <<>>) /\ Head(R3) = "add"
    BY Remainders, Distinct
  <2>2. step = "add" /\ Move(p, R3, R2)
    BY <1>5, <2>1, OneMove
  <2> QED  BY <2>2 DEF Moves
<1>6. ASSUME todo[p] = R2 PROVE Moves(p, step)
  <2>1. Tail(R2) = R1 /\ (Len(R2) = 1 <=> R1 = <<>>) /\ Head(R2) = "truncate"
    BY Remainders, Distinct
  <2>2. step = "truncate" /\ Move(p, R2, R1)
    BY <1>6, <2>1, OneMove
  <2> QED  BY <2>2 DEF Moves
<1>7. ASSUME todo[p] = R1 PROVE Moves(p, step)
  <2>1. Tail(R1) = <<>> /\ (Len(R1) = 1 <=> <<>> = <<>>) /\ Head(R1) = "write"
    BY Remainders, Distinct
  <2>2. step = "write" /\ Move(p, R1, <<>>)
    BY <1>7, <2>1, OneMove
  <2> QED  BY <2>2 DEF Moves
<1>8. ASSUME todo[p] = U3 PROVE Moves(p, step)
  <2>1. Tail(U3) = U2 /\ (Len(U3) = 1 <=> U2 = <<>>) /\ Head(U3) = "truncate"
    BY Remainders, Distinct
  <2>2. step = "truncate" /\ Move(p, U3, U2)
    BY <1>8, <2>1, OneMove
  <2> QED  BY <2>2 DEF Moves
<1>9. ASSUME todo[p] = U2 PROVE Moves(p, step)
  <2>1. Tail(U2) = U1 /\ (Len(U2) = 1 <=> U1 = <<>>) /\ Head(U2) = "write"
    BY Remainders, Distinct
  <2>2. step = "write" /\ Move(p, U2, U1)
    BY <1>9, <2>1, OneMove
  <2> QED  BY <2>2 DEF Moves
<1>10. ASSUME todo[p] = U1 PROVE Moves(p, step)
  <2>1. Tail(U1) = <<>> /\ (Len(U1) = 1 <=> <<>> = <<>>) /\ Head(U1) = "incident_updated"
    BY Remainders, Distinct
  <2>2. step = "incident_updated" /\ Move(p, U1, <<>>)
    BY <1>10, <2>1, OneMove
  <2> QED  BY <2>2 DEF Moves
<1>11. ASSUME todo[p] = S5 PROVE Moves(p, step)
  <2>1. Tail(S5) = S4 /\ (Len(S5) = 1 <=> S4 = <<>>) /\ Head(S5) = "notes"
    BY Remainders, Distinct
  <2>2. step = "notes" /\ Move(p, S5, S4)
    BY <1>11, <2>1, OneMove
  <2> QED  BY <2>2 DEF Moves
<1>12. ASSUME todo[p] = S4 PROVE Moves(p, step)
  <2>1. Tail(S4) = S3 /\ (Len(S4) = 1 <=> S3 = <<>>) /\ Head(S4) = "truncate"
    BY Remainders, Distinct
  <2>2. step = "truncate" /\ Move(p, S4, S3)
    BY <1>12, <2>1, OneMove
  <2> QED  BY <2>2 DEF Moves
<1>13. ASSUME todo[p] = S3 PROVE Moves(p, step)
  <2>1. Tail(S3) = S2 /\ (Len(S3) = 1 <=> S2 = <<>>) /\ Head(S3) = "write"
    BY Remainders, Distinct
  <2>2. step = "write" /\ Move(p, S3, S2)
    BY <1>13, <2>1, OneMove
  <2> QED  BY <2>2 DEF Moves
<1>14. ASSUME todo[p] = S2 PROVE Moves(p, step)
  <2>1. Tail(S2) = S1 /\ (Len(S2) = 1 <=> S1 = <<>>) /\ Head(S2) = "incident_updated"
    BY Remainders, Distinct
  <2>2. step = "incident_updated" /\ Move(p, S2, S1)
    BY <1>14, <2>1, OneMove
  <2> QED  BY <2>2 DEF Moves
<1>15. ASSUME todo[p] = S1 PROVE Moves(p, step)
  <2>1. Tail(S1) = <<>> /\ (Len(S1) = 1 <=> <<>> = <<>>) /\ Head(S1) = "incident_resolved"
    BY Remainders, Distinct
  <2>2. step = "incident_resolved" /\ Move(p, S1, <<>>)
    BY <1>15, <2>1, OneMove
  <2> QED  BY <2>2 DEF Moves
<1> QED
  BY <1>1, <1>2, <1>3, <1>4, <1>5, <1>6, <1>7, <1>8, <1>9, <1>10, <1>11, <1>12, <1>13, <1>14, <1>15
     DEF ReportsLeft, UpdatesLeft, ResolvesLeft

\* The step of p, whichever it is, changes nothing of the other invocations.
Step(p) ==
  \/ Add(p) \/ Notes(p) \/ Truncate(p) \/ Write(p) \/ logToAudit(p) \/ Stop(p)

-------------------------------------------------------------------------------
(* The types and the shape *)

\* The new reports, copies, entries and lines have their types.
LEMMA DataTyped ==
  /\ NewReport \in Reports /\ {Absent, Empty, Torn} \subseteq Files
  /\ \A r \in Reports : Whole(r) \in Files
  /\ NoCopy \in Copies
BY IncidentsAssumption DEF NewReport, Absent, Empty, Torn, Whole, NoCopy, Reports, Files, Copies, Identifiers, Asked, NoStatus

\* The three ways an invocation begins: what it holds and what it has to do.
Begun(p, id, c, steps) ==
  /\ id \in Identifiers /\ c \in Copies /\ c.id = id
  /\ todo[p] = <<>> /\ ~Used(p)
  /\ todo' = [todo EXCEPT ![p] = steps]
  /\ copy' = [copy EXCEPT ![p] = c]
  /\ spoiled' = IF Working(id) # {} THEN spoiled \cup {id} ELSE spoiled
  /\ UNCHANGED <<now, files, audit, finished, clashed, unlogged>>

BeginsReport(p, id, c) ==
  Begun(p, id, c, R6) /\ c.asked = "open" /\ ~c.resolves /\ c.report = NewReport

BeginsUpdate(p, id, c) ==
  /\ Begun(p, id, c, U3) /\ Loads(id) /\ ~c.resolves
  /\ c.report.by = files[id].report.by \cup {p} /\ c.report.resolvedAt = files[id].report.resolvedAt
  /\ c.report.status = IF c.asked = NoStatus THEN files[id].report.status ELSE c.asked

BeginsResolve(p, id, c) ==
  /\ Begun(p, id, c, S5) /\ Loads(id)
  /\ c.asked = "resolved" /\ c.resolves /\ c.report = files[id].report

LEMMA ReportBegins ==
  ASSUME TypeOK, NEW p \in Invocations, NewLeakReport(p)
  PROVE  \E id, c : BeginsReport(p, id, c)
<1> DEFINE c == [id |-> now, asked |-> "open", resolves |-> FALSE, report |-> NewReport]
<1>1. now \in Identifiers
  BY DEF TypeOK, Identifiers
<1>2. c \in Copies
  BY <1>1, DataTyped DEF Copies, Asked
<1>3. Begun(p, now, c, R6)
  BY <1>1, <1>2, ReportPlan DEF NewLeakReport, Begins, Begun, generateIncidentID
<1> QED  BY <1>3 DEF BeginsReport

LEMMA UpdateBegins ==
  ASSUME TypeOK, NEW p \in Invocations, NewLeakUpdate(p)
  PROVE  \E id, c : BeginsUpdate(p, id, c)
<1>1. PICK id \in Identifiers, status \in Asked :
        /\ Loads(id)
        /\ LET report == files[id].report
           IN Begins(p, id, [report EXCEPT !.by = @ \cup {p}, !.status = IF status = NoStatus THEN @ ELSE status],
                     status, FALSE, UpdateReport)
  BY Zenon DEF NewLeakUpdate
<1> DEFINE r == [files[id].report EXCEPT !.by = files[id].report.by \cup {p},
                                         !.status = IF status = NoStatus THEN files[id].report.status ELSE status]
           c == [id |-> id, asked |-> status, resolves |-> FALSE, report |-> r]
<1>2. files[id].report \in Reports
  BY DEF TypeOK, Files
<1>3. /\ r \in Reports /\ r.by = files[id].report.by \cup {p} /\ r.resolvedAt = files[id].report.resolvedAt
      /\ r.status = IF status = NoStatus THEN files[id].report.status ELSE status
  BY <1>2 DEF Reports, Asked, NoStatus
<1>4. Begins(p, id, r, status, FALSE, U3)
  BY <1>1, UpdatePlan
<1> HIDE DEF r
<1>5. c \in Copies
  BY <1>3 DEF Copies
<1>6. Begun(p, id, c, U3)
  BY <1>4, <1>5 DEF Begins, Begun
<1> QED  BY <1>1, <1>3, <1>6 DEF BeginsUpdate

LEMMA ResolveBegins ==
  ASSUME TypeOK, NEW p \in Invocations, NewLeakResolve(p)
  PROVE  \E id, c : BeginsResolve(p, id, c)
<1>1. PICK id \in Identifiers :
        Loads(id) /\ Begins(p, id, files[id].report, "resolved", TRUE, <<"notes">> \o ResolveReport)
  BY DEF NewLeakResolve
<1> DEFINE c == [id |-> id, asked |-> "resolved", resolves |-> TRUE, report |-> files[id].report]
<1>2. files[id].report \in Reports
  BY DEF TypeOK, Files
<1>3. c \in Copies
  BY <1>2 DEF Copies, Asked
<1>4. Begun(p, id, c, S5)
  BY <1>1, <1>3, ResolvePlan DEF Begins, Begun
<1> QED  BY <1>1, <1>4 DEF BeginsResolve

LEMMA EntryTyped ==
  ASSUME TypeOK, NEW p \in Invocations
  PROVE  Entry(p) \in Entries
<1>1. copy[p] \in Copies
  BY DEF TypeOK
<1> QED  BY <1>1 DEF Entry, Entries, Copies

LEMMA TakesTyped ==
  ASSUME TypeOK, NEW p \in Invocations, NEW step, Takes(p, step)
  PROVE  todo' \in [Invocations -> Seq(Steps)] /\ finished' \in Seq(Entries)
<1>1. todo[p] \in Seq(Steps) /\ todo[p] # <<>>
  BY DEF TypeOK, Takes
<1>2. Tail(todo[p]) \in Seq(Steps)
  BY <1>1
<1>3. todo' \in [Invocations -> Seq(Steps)]
  BY <1>2 DEF TypeOK, Takes
<1>4. finished \in Seq(Entries) /\ Append(finished, Entry(p)) \in Seq(Entries)
  BY EntryTyped DEF TypeOK
<1>5. finished' \in Seq(Entries)
  BY <1>4 DEF Takes
<1> QED  BY <1>3, <1>5

\* What Add and Notes make of the copy.
LEMMA CopyEdits ==
  ASSUME TypeOK, NEW p \in Invocations
  PROVE  /\ Add(p) => \E c \in Copies :
              /\ copy' = [copy EXCEPT ![p] = c] /\ c.id = copy[p].id /\ c.asked = copy[p].asked
              /\ c.resolves = copy[p].resolves
              /\ c.report = [copy[p].report EXCEPT !.by = copy[p].report.by \cup {p}]
         /\ Notes(p) => \E c \in Copies :
              /\ copy' = [copy EXCEPT ![p] = c] /\ c.id = copy[p].id /\ c.asked = copy[p].asked
              /\ c.resolves = copy[p].resolves
              /\ c.report = [status |-> "resolved", resolvedAt |-> TRUE, by |-> copy[p].report.by \cup {p}]
<1>1. copy[p] \in Copies /\ copy \in [Invocations -> Copies] /\ copy[p].report \in Reports
  BY DEF TypeOK, Copies
<1> DEFINE a == [copy[p].report EXCEPT !.by = copy[p].report.by \cup {p}]
           n == [status |-> "resolved", resolvedAt |-> TRUE, by |-> copy[p].report.by \cup {p}]
<1>2. a \in Reports /\ n \in Reports
  BY <1>1 DEF Reports
<1> DEFINE ca == [copy[p] EXCEPT !.report = a]
           cn == [copy[p] EXCEPT !.report = n]
<1>3. Add(p) => copy' = [copy EXCEPT ![p] = ca]
  BY <1>1 DEF Add
<1>4. Notes(p) => copy' = [copy EXCEPT ![p] = cn]
  BY <1>1 DEF Notes
<1> HIDE DEF a, n
<1>5. /\ ca \in Copies /\ ca.id = copy[p].id /\ ca.asked = copy[p].asked
      /\ ca.resolves = copy[p].resolves /\ ca.report = a
  BY <1>1, <1>2 DEF Copies
<1>6. /\ cn \in Copies /\ cn.id = copy[p].id /\ cn.asked = copy[p].asked
      /\ cn.resolves = copy[p].resolves /\ cn.report = n
  BY <1>1, <1>2 DEF Copies
<1> HIDE DEF ca, cn
<1> QED  BY <1>3, <1>4, <1>5, <1>6 DEF a, n

LEMMA TypeInit == Init => TypeOK
<1> SUFFICES ASSUME Init PROVE TypeOK
  OBVIOUS
<1>1. now \in 0 .. MaxTime
  BY IncidentsAssumption DEF Init
<1>2. files \in [Identifiers -> Files] /\ copy \in [Invocations -> Copies]
  BY DataTyped DEF Init
<1>3. audit \in Seq(LogLines) /\ todo \in [Invocations -> Seq(Steps)] /\ finished \in Seq(Entries)
  BY DEF Init
<1> QED  BY <1>1, <1>2, <1>3 DEF Init, TypeOK

LEMMA BegunTyped ==
  ASSUME TypeOK, NEW p \in Invocations, NEW id, NEW c, NEW steps \in {R6, U3, S5}, Begun(p, id, c, steps)
  PROVE  TypeOK'
<1>1. steps \in Seq(Steps)
  BY RemaindersTyped
<1>2. todo' \in [Invocations -> Seq(Steps)] /\ copy' \in [Invocations -> Copies]
  BY <1>1 DEF Begun, TypeOK
<1>3. spoiled' \subseteq Identifiers
  BY DEF Begun, TypeOK
<1> QED  BY <1>2, <1>3 DEF Begun, TypeOK

LEMMA TypeStep == TypeOK /\ [Next]_vars => TypeOK'
<1> SUFFICES ASSUME TypeOK, [Next]_vars PROVE TypeOK'
  OBVIOUS
<1>1. CASE UNCHANGED vars
  BY <1>1 DEF TypeOK, vars, history
<1>2. CASE Tick
  BY <1>2, IncidentsAssumption DEF Tick, TypeOK, history
<1>3. ASSUME NEW p \in Invocations, NewLeakReport(p) PROVE TypeOK'
  BY <1>3, ReportBegins, BegunTyped DEF BeginsReport
<1>4. ASSUME NEW p \in Invocations, NewLeakUpdate(p) PROVE TypeOK'
  BY <1>4, UpdateBegins, BegunTyped DEF BeginsUpdate
<1>5. ASSUME NEW p \in Invocations, NewLeakResolve(p) PROVE TypeOK'
  BY <1>5, ResolveBegins, BegunTyped DEF BeginsResolve
<1>6. ASSUME NEW p \in Invocations, Add(p) \/ Notes(p) PROVE TypeOK'
  <2>1. copy' \in [Invocations -> Copies]
    BY <1>6, CopyEdits DEF TypeOK
  <2>2. todo' \in [Invocations -> Seq(Steps)] /\ finished' \in Seq(Entries)
    BY <1>6, TakesTyped DEF Add, Notes
  <2> QED  BY <1>6, <2>1, <2>2 DEF Add, Notes, TypeOK
<1>7. ASSUME NEW p \in Invocations, Truncate(p) \/ Write(p) PROVE TypeOK'
  <2>1. todo' \in [Invocations -> Seq(Steps)] /\ finished' \in Seq(Entries)
    BY <1>7, TakesTyped DEF Truncate, Write
  <2>2. copy[p].id \in Identifiers /\ copy[p].report \in Reports
    BY DEF TypeOK, Copies
  <2>3. files' \in [Identifiers -> Files]
    <3>1. Whole(copy[p].report) \in Files /\ {Empty, Torn} \subseteq Files
      BY <2>2, DataTyped
    <3>2. \E file \in Files : files' = [files EXCEPT ![copy[p].id] = file]
      BY <1>7, <3>1 DEF Truncate, Write
    <3> QED  BY <3>2 DEF TypeOK
  <2>4. spoiled' \subseteq Identifiers /\ clashed' \subseteq Identifiers
    BY <1>7, <2>2 DEF Truncate, Write, TypeOK
  <2> QED  BY <1>7, <2>1, <2>3, <2>4 DEF Truncate, Write, TypeOK
<1>8. ASSUME NEW p \in Invocations, logToAudit(p) PROVE TypeOK'
  <2>1. PICK action \in Actions :
          /\ Takes(p, action)
          /\ \/ /\ audit' = Append(audit, [id |-> copy[p].id, action |-> action, status |-> copy[p].report.status])
                /\ UNCHANGED unlogged
             \/ UNCHANGED audit /\ unlogged' = unlogged \cup {copy[p].id}
    BY <1>8, Zenon DEF logToAudit
  <2>2. todo' \in [Invocations -> Seq(Steps)] /\ finished' \in Seq(Entries)
    BY <2>1, TakesTyped
  <2>3. copy[p].id \in Identifiers /\ copy[p].report.status \in {"open", "investigating", "resolved"}
    BY DEF TypeOK, Copies, Reports
  <2>4. [id |-> copy[p].id, action |-> action, status |-> copy[p].report.status] \in LogLines
    BY <2>1, <2>3 DEF LogLines
  <2>5. audit \in Seq(LogLines)
    BY DEF TypeOK
  <2>6. audit' \in Seq(LogLines)
    BY <2>1, <2>4, <2>5
  <2>7. unlogged' \subseteq Identifiers
    BY <2>1, <2>3 DEF TypeOK
  <2> QED  BY <1>8, <2>2, <2>6, <2>7 DEF logToAudit, TypeOK
<1>9. ASSUME NEW p \in Invocations, Stop(p) PROVE TypeOK'
  <2>1. copy[p].id \in Identifiers
    BY DEF TypeOK, Copies
  <2>2. todo' \in [Invocations -> Seq(Steps)]
    BY <1>9 DEF Stop, TypeOK
  <2>3. files' \in [Identifiers -> Files]
    BY <1>9, <2>1, DataTyped DEF Stop, TypeOK
  <2>4. spoiled' \subseteq Identifiers /\ clashed' \subseteq Identifiers
    BY <1>9, <2>1 DEF Stop, TypeOK
  <2> QED  BY <1>9, <2>2, <2>3, <2>4 DEF Stop, TypeOK
<1> QED  BY <1>1, <1>2, <1>3, <1>4, <1>5, <1>6, <1>7, <1>8, <1>9 DEF Next

\* An action of an invocation leaves the others as they are.
Others(p) == \A q \in Invocations : q # p => todo'[q] = todo[q] /\ copy'[q] = copy[q]

\* What an invocation is about, and what for, stays.
Held(p) ==
  /\ copy'[p].id = copy[p].id /\ copy'[p].asked = copy[p].asked /\ copy'[p].resolves = copy[p].resolves

LEMMA ActsAlone ==
  ASSUME TypeOK, NEW p \in Invocations
  PROVE  /\ Step(p) => Others(p) /\ Held(p) /\ copy'[p].id \in Identifiers
         /\ \A id, c, steps : Begun(p, id, c, steps) => Others(p) /\ copy'[p] = c /\ todo'[p] = steps
         /\ \A step : Takes(p, step) => \A q \in Invocations : q # p => todo'[q] = todo[q]
         /\ Truncate(p) \/ Write(p) \/ logToAudit(p) \/ Stop(p) => copy'[p] = copy[p]
<1>1. todo \in [Invocations -> Seq(Steps)] /\ copy \in [Invocations -> Copies] /\ copy[p].id \in Identifiers
  BY DEF TypeOK, Copies
<1>2. \A id, c, steps : Begun(p, id, c, steps) => Others(p) /\ copy'[p] = c /\ todo'[p] = steps
  BY <1>1 DEF Begun, Others
<1>3. \A step : Takes(p, step) => \A q \in Invocations : q # p => todo'[q] = todo[q]
  BY <1>1 DEF Takes
<1>4. Truncate(p) \/ Write(p) \/ logToAudit(p) \/ Stop(p) => copy' = copy
  BY DEF Truncate, Write, logToAudit, Stop
<1>5. Add(p) \/ Notes(p) => Others(p) /\ Held(p)
  <2>1. Add(p) \/ Notes(p) => \A q \in Invocations : q # p => todo'[q] = todo[q]
    BY <1>3 DEF Add, Notes
  <2>2. Add(p) => (\A q \in Invocations : q # p => copy'[q] = copy[q]) /\ Held(p)
    BY <1>1, CopyEdits DEF Held
  <2>3. Notes(p) => (\A q \in Invocations : q # p => copy'[q] = copy[q]) /\ Held(p)
    BY <1>1, CopyEdits DEF Held
  <2> QED  BY <2>1, <2>2, <2>3 DEF Others
<1>6. Truncate(p) \/ Write(p) \/ logToAudit(p) => Others(p) /\ Held(p)
  BY <1>3, <1>4 DEF Truncate, Write, logToAudit, Others, Held
<1>7. Stop(p) => Others(p) /\ Held(p)
  BY <1>1, <1>4 DEF Stop, Others, Held
<1> QED  BY <1>1, <1>2, <1>3, <1>4, <1>5, <1>6, <1>7 DEF Step, Held

\* After a step what is left has still the shape of the command.
LEMMA MovesShaped ==
  ASSUME TypeOK, Shaped, NEW p \in Invocations, NEW step, Moves(p, step), Held(p),
         copy'[p].report = copy[p].report \/ step \in {"add", "notes"}
  PROVE  Shape(p)'
<1>1. Shape(p) /\ \A x : (todo' = [todo EXCEPT ![p] = x]) => todo'[p] = x
  BY DEF Shaped, TypeOK
<1>2. \A from, to : Move(p, from, to) => todo[p] = from /\ todo'[p] = to
  BY <1>1 DEF Move
<1>3. CASE todo[p] \in ReportsLeft
  <2>1. todo'[p] \in ReportsLeft \cup {<<>>}
    BY <1>2, <1>3, Distinct DEF Moves, ReportsLeft
  <2>2. copy[p].asked = "open" /\ ~copy[p].resolves
    BY <1>1, <1>3, Distinct DEF Shape, ReportsLeft, UpdatesLeft, ResolvesLeft
  <2> QED  BY <2>1, <2>2 DEF Shape, Held
<1>4. CASE todo[p] \in UpdatesLeft
  <2>1. todo'[p] \in UpdatesLeft \cup {<<>>} /\ step \notin {"add", "notes"}
    BY <1>2, <1>4, Distinct DEF Moves, UpdatesLeft
  <2>2. ~copy[p].resolves /\ copy[p].report # NewReport
    BY <1>1, <1>4, Distinct DEF Shape, ReportsLeft, UpdatesLeft, ResolvesLeft
  <2> QED  BY <2>1, <2>2 DEF Shape, Held
<1>5. CASE todo[p] \in ResolvesLeft
  <2>1. todo'[p] \in ResolvesLeft \cup {<<>>}
    BY <1>2, <1>5, Distinct DEF Moves, ResolvesLeft
  <2>2. copy[p].asked = "resolved" /\ copy[p].resolves
    BY <1>1, <1>5, Distinct DEF Shape, ReportsLeft, UpdatesLeft, ResolvesLeft
  <2> QED  BY <2>1, <2>2 DEF Shape, Held
<1>6. CASE todo[p] = <<>>
  BY <1>2, <1>6, Distinct DEF Moves
<1> QED  BY <1>1, <1>3, <1>4, <1>5, <1>6 DEF Shape

LEMMA OthersShaped ==
  ASSUME Shaped, NEW p \in Invocations, Others(p), Shape(p)'
  PROVE  Shaped'
BY DEF Shaped, Shape, Others

LEMMA ShapedStep == TypeOK /\ Shaped /\ [Next]_vars => Shaped'
<1> SUFFICES ASSUME TypeOK, Shaped, [Next]_vars PROVE Shaped'
  OBVIOUS
<1>1. CASE UNCHANGED vars
  BY <1>1 DEF Shaped, Shape, vars, history
<1>2. CASE Tick
  BY <1>2 DEF Tick, Shaped, Shape
<1>3. ASSUME NEW p \in Invocations, NewLeakReport(p) PROVE Shaped'
  <2>1. PICK id, c : BeginsReport(p, id, c)
    BY <1>3, ReportBegins
  <2>2. todo'[p] = R6 /\ copy'[p] = c /\ Others(p)
    BY <2>1, ActsAlone DEF BeginsReport
  <2>3. Shape(p)'
    BY <2>1, <2>2 DEF BeginsReport, Shape, ReportsLeft
  <2> QED  BY <2>2, <2>3, OthersShaped
<1>4. ASSUME NEW p \in Invocations, NewLeakUpdate(p) PROVE Shaped'
  <2>1. PICK id, c : BeginsUpdate(p, id, c)
    BY <1>4, UpdateBegins
  <2>2. todo'[p] = U3 /\ copy'[p] = c /\ Others(p)
    BY <2>1, ActsAlone DEF BeginsUpdate
  <2>3. c.report # NewReport
    <3>1. p \in c.report.by /\ NewReport.by = {}
      BY <2>1 DEF BeginsUpdate, NewReport
    <3> QED  BY <3>1
  <2>4. Shape(p)'
    BY <2>1, <2>2, <2>3 DEF BeginsUpdate, Shape, UpdatesLeft, NewReport
  <2> QED  BY <2>2, <2>4, OthersShaped
<1>5. ASSUME NEW p \in Invocations, NewLeakResolve(p) PROVE Shaped'
  <2>1. PICK id, c : BeginsResolve(p, id, c)
    BY <1>5, ResolveBegins
  <2>2. todo'[p] = S5 /\ copy'[p] = c /\ Others(p)
    BY <2>1, ActsAlone DEF BeginsResolve
  <2>3. Shape(p)'
    BY <2>1, <2>2 DEF BeginsResolve, Shape, ResolvesLeft
  <2> QED  BY <2>2, <2>3, OthersShaped
<1>6. ASSUME NEW p \in Invocations, Add(p) \/ Notes(p) \/ Truncate(p) \/ Write(p) \/ logToAudit(p) PROVE Shaped'
  <2>1. Others(p) /\ Held(p)
    BY <1>6, ActsAlone DEF Step
  <2>2. PICK step : Takes(p, step) /\ (copy'[p].report = copy[p].report \/ step \in {"add", "notes"})
    BY <1>6 DEF Add, Notes, Truncate, Write, logToAudit
  <2>3. Shape(p)'
    BY <2>1, <2>2, TakesMoves, MovesShaped
  <2> QED  BY <2>1, <2>3, OthersShaped
<1>7. ASSUME NEW p \in Invocations, Stop(p) PROVE Shaped'
  <2>1. Others(p)
    BY <1>7, ActsAlone DEF Step
  <2>2. todo'[p] = <<>>
    BY <1>7 DEF Stop, TypeOK
  <2>3. Shape(p)'
    BY <2>2 DEF Shape
  <2> QED  BY <2>1, <2>3, OthersShaped
<1> QED  BY <1>1, <1>2, <1>3, <1>4, <1>5, <1>6, <1>7 DEF Next

-------------------------------------------------------------------------------
(* Who is at work, and what the files are *)

\* Which invocations work on an incident changes only by the one that acts.
LEMMA WorkingAfter ==
  ASSUME NEW p \in Invocations, Others(p), NEW j, copy'[p].id = j,
         todo[p] = <<>> \/ copy[p].id = j,
         NEW id
  PROVE  /\ id # j => Working(id)' = Working(id) /\ p \notin Working(id)
         /\ id = j => Working(id)' = (Working(id) \ {p}) \cup {q \in {p} : todo'[p] # <<>>}
BY DEF Working, Others

\* An invocation that takes a step, or is stopped, is at work.
LEMMA StepWorks ==
  ASSUME NEW p \in Invocations, Step(p)
  PROVE  todo[p] # <<>> /\ p \in Working(copy[p].id)
<1>1. todo[p] # <<>>
  BY DEF Step, Add, Notes, Truncate, Write, logToAudit, Stop, Takes
<1> QED  BY <1>1 DEF Working

LEMMA SpoiledGrows ==
  ASSUME [Next]_vars
  PROVE  spoiled \subseteq spoiled' /\ unlogged \subseteq unlogged'
<1>1. CASE UNCHANGED vars
  BY <1>1 DEF vars, history
<1>2. CASE Tick
  BY <1>2 DEF Tick, history
<1>3. ASSUME NEW p \in Invocations, Add(p) \/ Notes(p) \/ Truncate(p) \/ Write(p) \/ logToAudit(p) \/ Stop(p)
      PROVE  spoiled \subseteq spoiled' /\ unlogged \subseteq unlogged'
  BY <1>3 DEF Add, Notes, Truncate, Write, logToAudit, Stop
<1>4. ASSUME NEW p \in Invocations, NewLeakReport(p) \/ NewLeakUpdate(p) \/ NewLeakResolve(p)
      PROVE  spoiled \subseteq spoiled' /\ unlogged \subseteq unlogged'
  <2>1. PICK id, report, asked, resolves, steps : Begins(p, id, report, asked, resolves, steps)
    BY <1>4, Zenon DEF NewLeakReport, NewLeakUpdate, NewLeakResolve
  <2> QED  BY <2>1 DEF Begins
<1> QED  BY <1>1, <1>2, <1>3, <1>4 DEF Next

\* What a step of an invocation is, seen from its incident.
LEMMA NextCases ==
  ASSUME TypeOK, [Next]_vars
  PROVE  \/ UNCHANGED <<files, audit, todo, copy, history>>
         \/ \E p \in Invocations : \E id, c :
              BeginsReport(p, id, c) \/ BeginsUpdate(p, id, c) \/ BeginsResolve(p, id, c)
         \/ \E p \in Invocations : Step(p)
<1>1. CASE UNCHANGED vars
  BY <1>1 DEF vars
<1>2. CASE Tick
  BY <1>2 DEF Tick
<1>3. ASSUME NEW p \in Invocations, NewLeakReport(p) \/ NewLeakUpdate(p) \/ NewLeakResolve(p)
      PROVE  \E id, c : BeginsReport(p, id, c) \/ BeginsUpdate(p, id, c) \/ BeginsResolve(p, id, c)
  BY <1>3, ReportBegins, UpdateBegins, ResolveBegins
<1> QED  BY <1>1, <1>2, <1>3 DEF Next, Step

LEMMA AloneStep == TypeOK /\ Alone /\ [Next]_vars => Alone'
<1> SUFFICES ASSUME TypeOK, Alone, [Next]_vars PROVE Alone'
  OBVIOUS
<1>1. CASE UNCHANGED <<files, audit, todo, copy, history>>
  BY <1>1 DEF Alone, Working, history
<1>2. ASSUME NEW p \in Invocations, Step(p) PROVE Alone'
  <2>1. Others(p) /\ Held(p) /\ p \in Working(copy[p].id)
    BY <1>2, ActsAlone, StepWorks
  <2>2. \A id : Working(id)' \subseteq Working(id)
    BY <2>1, WorkingAfter DEF Held
  <2> QED  BY <2>2, SpoiledGrows DEF Alone
<1>3. ASSUME NEW p \in Invocations, NEW j, NEW c, NEW steps, Begun(p, j, c, steps) PROVE Alone'
  <2>1. Others(p) /\ copy'[p] = c /\ c.id = j /\ todo[p] = <<>>
    BY <1>3, ActsAlone DEF Begun
  <2>2. \A id : id # j => Working(id)' = Working(id)
    BY <2>1, WorkingAfter
  <2>3. Working(j)' \subseteq Working(j) \cup {p}
    BY <2>1, WorkingAfter
  <2>4. j \notin spoiled' => Working(j) = {}
    BY <1>3 DEF Begun
  <2> QED  BY <2>2, <2>3, <2>4, SpoiledGrows DEF Alone
<1> QED  BY <1>1, <1>2, <1>3, NextCases DEF BeginsReport, BeginsUpdate, BeginsResolve

\* Who fills a file changes only by the one that acts: it does after it emptied
\* the file, and only then.
LEMMA FillingAfter ==
  ASSUME TypeOK, Shaped, NEW p \in Invocations, Step(p), NEW j, copy[p].id = j
  PROVE  /\ Filling(j)' = (Filling(j) \ {p}) \cup {q \in {p} : Truncate(p)}
         /\ p \in Filling(j) <=> todo[p] # <<>> /\ Head(todo[p]) = "write"
         /\ \A id : id # j => Filling(id)' = Filling(id)
<1>1. Others(p) /\ Held(p) /\ p \in Working(j)
  BY ActsAlone, StepWorks
<1>2. \A id : id # j => Working(id)' = Working(id) /\ p \notin Working(id)
  BY <1>1, WorkingAfter DEF Held
<1>3. Working(j)' = (Working(j) \ {p}) \cup {q \in {p} : todo'[p] # <<>>}
  BY <1>1, WorkingAfter DEF Held
<1>4. todo'[p] # <<>> /\ Head(todo'[p]) = "write" <=> Truncate(p)
  <2>1. \A x : (todo' = [todo EXCEPT ![p] = x]) => todo'[p] = x
    BY DEF TypeOK
  <2>2. CASE Stop(p)
    <3>1. todo'[p] = <<>> /\ finished' = finished
      BY <2>1, <2>2 DEF Stop
    <3>2. ASSUME Truncate(p) PROVE FALSE
      <4>1. Moves(p, "truncate")
        BY <3>2, TakesMoves DEF Truncate
      <4> QED  BY <2>1, <3>1, <4>1, Distinct DEF Moves, Move
    <3> QED  BY <3>1, <3>2
  <2>3. CASE ~Stop(p)
    <3>1. PICK step \in Steps : Takes(p, step) /\ (step = "truncate" <=> Truncate(p))
      BY <2>3 DEF Step, Add, Notes, Truncate, Write, logToAudit, Steps, Actions, Takes
    <3>2. Moves(p, step)
      BY <3>1, TakesMoves
    <3>3. step = "truncate" => todo'[p] \in {R5, R1, U2, S3}
      BY <2>1, <3>2 DEF Moves, Move
    <3>4. step # "truncate" => todo'[p] \in {R4, R3, R2, U1, S4, S2, S1, <<>>}
      BY <2>1, <3>2 DEF Moves, Move
    <3>5. \A x \in {R5, R1, U2, S3} : x # <<>> /\ Head(x) = "write"
      BY Remainders, Distinct
    <3>6. \A x \in {R4, R3, R2, U1, S4, S2, S1} : Head(x) # "write"
      BY Remainders
    <3> QED  BY <3>1, <3>3, <3>4, <3>5, <3>6
  <2> QED  BY <2>2, <2>3
<1>5. Filling(j)' = (Filling(j) \ {p}) \cup {q \in {p} : Truncate(p)}
  <2>1. \A q \in Working(j)' \ {p} : q \in Working(j) /\ todo'[q] = todo[q]
    BY <1>1, <1>3 DEF Others, Working
  <2>2. \A q \in Working(j) \ {p} : q \in Working(j)' /\ todo'[q] = todo[q]
    BY <1>1, <1>3 DEF Others, Working
  <2>3. p \in Working(j)' <=> todo'[p] # <<>>
    BY <1>3
  <2>4. \A q : q \in Filling(j) <=> q \in Working(j) /\ Head(todo[q]) = "write"
    BY DEF Filling, Working
  <2>5. \A q : q \in Filling(j)' <=> q \in Working(j)' /\ Head(todo'[q]) = "write"
    BY DEF Filling, Working
  <2>6. \A q : q # p => (q \in Filling(j)' <=> q \in Filling(j))
    BY <2>1, <2>2, <2>4, <2>5
  <2>7. p \in Filling(j)' <=> Truncate(p)
    BY <1>4, <2>3, <2>5
  <2> QED  BY <2>6, <2>7
<1>6. \A id : id # j => Filling(id)' = Filling(id)
  <2>1. ASSUME NEW id, id # j PROVE \A q \in Working(id) : todo'[q] = todo[q]
    BY <1>1, <1>2, <2>1 DEF Others, Working
  <2> QED  BY <1>2, <2>1 DEF Filling
<1>7. p \in Filling(j) <=> todo[p] # <<>> /\ Head(todo[p]) = "write"
  BY <1>1 DEF Filling, Working
<1> QED  BY <1>5, <1>6, <1>7

LEMMA FilesStandStep == TypeOK /\ Shaped /\ FilesStand /\ [Next]_vars => FilesStand'
<1> SUFFICES ASSUME TypeOK, Shaped, FilesStand, [Next]_vars PROVE FilesStand'
  OBVIOUS
<1>1. CASE UNCHANGED <<files, audit, todo, copy, history>>
  BY <1>1 DEF FilesStand, FileStands, Filling, Working, history
<1>2. ASSUME NEW p \in Invocations, Step(p) PROVE FilesStand'
  <2>j. PICK j : j = copy[p].id
    OBVIOUS
  <2>1. j \in Identifiers /\ files \in [Identifiers -> Files]
    BY <2>j DEF TypeOK, Copies
  <2>2. /\ Filling(j)' = (Filling(j) \ {p}) \cup {q \in {p} : Truncate(p)}
        /\ p \in Filling(j) <=> todo[p] # <<>> /\ Head(todo[p]) = "write"
        /\ \A id : id # j => Filling(id)' = Filling(id)
    BY <1>2, <2>j, FillingAfter
  <2>3. \A id \in Identifiers : id # j => files'[id] = files[id] /\ (id \in clashed' <=> id \in clashed)
    BY <1>2, <2>1, <2>j DEF Step, Add, Notes, Truncate, Write, logToAudit, Stop
  <2>4. ASSUME NEW id \in Identifiers, id # j PROVE FileStands(id)'
    BY <2>2, <2>3, <2>4 DEF FilesStand, FileStands
  <2>5. FileStands(j)
    BY <2>1 DEF FilesStand
  <2>6. CASE Truncate(p)
    <3>1. files'[j] = Empty /\ (j \notin clashed' => Filling(j) = {})
      BY <2>1, <2>6, <2>j DEF Truncate
    <3>2. j \notin clashed' => Filling(j)' = {p}
      BY <2>2, <2>6, <3>1
    <3>3. FileStands(j)'
      BY <3>1, <3>2 DEF FileStands, Empty
    <3> QED  BY <2>4, <3>3 DEF FilesStand
  <2>7. CASE Write(p)
    <3>1. p \in Filling(j) /\ ~Truncate(p)
      BY <2>2, <2>7 DEF Write, Truncate, Takes
    <3>2. clashed' = clashed /\ files'[j].state # "absent"
      BY <2>1, <2>7, <2>j DEF Write, Whole, Torn
    <3>3. j \notin clashed => Filling(j) = {p} /\ files[j] = Empty
      BY <2>5, <3>1 DEF FileStands
    <3>4. j \notin clashed => Filling(j)' = {} /\ files'[j].state = "whole"
      BY <2>1, <2>2, <2>7, <2>j, <3>1, <3>3 DEF Write, Whole
    <3>5. FileStands(j)'
      BY <3>2, <3>4 DEF FileStands
    <3> QED  BY <2>4, <3>5 DEF FilesStand
  <2>8. CASE Stop(p) /\ ~Truncate(p)
    <3>1. CASE p \in Filling(j)
      <4>1. j \in clashed' /\ (files'[j] = files[j] \/ files'[j] = Torn)
        BY <2>1, <2>8, <2>j, <3>1 DEF Stop
      <4>2. FileStands(j)'
        BY <2>5, <4>1 DEF FileStands, Torn
      <4> QED  BY <2>4, <4>2 DEF FilesStand
    <3>2. CASE p \notin Filling(j)
      <4>1. clashed' = clashed /\ files'[j] = files[j]
        BY <2>1, <2>8, <2>j, <3>2 DEF Stop
      <4>2. Filling(j)' = Filling(j)
        BY <2>2, <2>8, <3>2
      <4>3. FileStands(j)'
        BY <2>5, <4>1, <4>2 DEF FileStands
      <4> QED  BY <2>4, <4>3 DEF FilesStand
    <3> QED  BY <3>1, <3>2
  <2>9. CASE Add(p) \/ Notes(p) \/ logToAudit(p)
    <3>1. files' = files /\ clashed' = clashed
      BY <2>9 DEF Add, Notes, logToAudit
    <3>2. p \notin Filling(j) /\ ~Truncate(p)
      BY <2>2, <2>9 DEF Add, Notes, logToAudit, Truncate, Takes, Actions
    <3>3. Filling(j)' = Filling(j)
      BY <2>2, <3>2
    <3>4. FileStands(j)'
      BY <2>5, <3>1, <3>3 DEF FileStands
    <3> QED  BY <2>4, <3>4 DEF FilesStand
  <2> QED  BY <1>2, <2>6, <2>7, <2>8, <2>9 DEF Step
<1>3. ASSUME NEW p \in Invocations, NEW j, NEW c, NEW steps \in {R6, U3, S5}, Begun(p, j, c, steps)
      PROVE  FilesStand'
  <2>1. /\ Others(p) /\ copy'[p] = c /\ c.id = j /\ todo[p] = <<>> /\ todo'[p] = steps
        /\ files' = files /\ clashed' = clashed
    <3>1. Others(p) /\ copy'[p] = c /\ todo'[p] = steps
      BY <1>3, ActsAlone, Zenon
    <3> QED  BY <1>3, <3>1 DEF Begun
  <2>2. Head(steps) # "write"
    BY Remainders
  <2>3. \A id : Filling(id)' = Filling(id)
    BY <2>1, <2>2 DEF Filling, Working, Others
  <2> QED  BY <2>1, <2>3 DEF FilesStand, FileStands
<1> QED  BY <1>1, <1>2, <1>3, NextCases DEF BeginsReport, BeginsUpdate, BeginsResolve

-------------------------------------------------------------------------------
(* The history and the log of one incident *)

\* Appending adds one place, after all others.
LEMMA Appended ==
  ASSUME NEW S, NEW s \in Seq(S), NEW e \in S
  PROVE  \E n \in Nat :
           /\ DOMAIN Append(s, e) = DOMAIN s \cup {n} /\ n \notin DOMAIN s /\ Append(s, e)[n] = e
           /\ \A i \in DOMAIN s : i \in Nat /\ i < n /\ Append(s, e)[i] = s[i]
<1> DEFINE t == Append(s, e)
<1>1. t \in Seq(S) /\ Len(t) = Len(s) + 1 /\ t[Len(s) + 1] = e /\ Len(s) \in Nat
  OBVIOUS
<1>2. \A i \in 1..Len(s) : t[i] = s[i]
  OBVIOUS
<1>3. DOMAIN s = 1..Len(s) /\ DOMAIN t = 1..Len(s) + 1
  BY <1>1
<1> HIDE DEF t
<1>4. /\ DOMAIN t = DOMAIN s \cup {Len(s) + 1} /\ Len(s) + 1 \notin DOMAIN s
      /\ \A i \in DOMAIN s : i \in Nat /\ i < Len(s) + 1 /\ t[i] = s[i]
  BY <1>1, <1>2, <1>3
<1> QED  BY <1>1, <1>4 DEF t

\* What the entries and lines of an incident say stays, if they are the same.
SameEntries(id) == Mine(id)' = Mine(id) /\ \A i \in Mine(id) : finished'[i] = finished[i]
SameLines(id) == Lines(id)' = Lines(id) /\ \A i \in Lines(id) : audit'[i] = audit[i]

LEMMA EntriesKeep ==
  ASSUME NEW id, SameEntries(id)
  PROVE  /\ Added(id)' = Added(id) /\ Resolving(id)' = Resolving(id)
         /\ \A s : LastAsked(id, s)' <=> LastAsked(id, s)
         /\ \A r : Says(id, r)' <=> Says(id, r)
         /\ \A p, c : WouldSay(id, p, c)' <=> WouldSay(id, p, c)
<1>1. Added(id)' = Added(id)
  BY DEF SameEntries, Added
<1>2. Resolving(id)' = Resolving(id)
  BY DEF SameEntries, Resolving
<1>3. \A s : LastAsked(id, s)' <=> LastAsked(id, s)
  BY DEF SameEntries, LastAsked
<1>4. \A r : Says(id, r)' <=> Says(id, r)
  BY <1>1, <1>2, <1>3 DEF Says
<1>5. \A p, c : WouldSay(id, p, c)' <=> WouldSay(id, p, c)
  BY <1>1, <1>2, <1>3 DEF WouldSay
<1> QED  BY <1>1, <1>2, <1>3, <1>4, <1>5

LEMMA LinesKeep ==
  ASSUME NEW id, SameLines(id)
  PROVE  /\ \A action : Logged(id, action)' = Logged(id, action)
         /\ \A s : LastLogged(id, s)' <=> LastLogged(id, s)
<1>1. \A action : Logged(id, action)' = Logged(id, action)
  BY DEF SameLines, Logged
<1>2. \A s : LastLogged(id, s)' <=> LastLogged(id, s)
  BY DEF SameLines, LastLogged
<1> QED  BY <1>1, <1>2

\* The history after a step of p: its entry is the last, if there is one.
LEMMA FinishedAfter ==
  ASSUME TypeOK, NEW p \in Invocations, NEW id,
         finished' = finished \/ finished' = Append(finished, Entry(p)),
         finished' = finished \/ copy[p].id # id
  PROVE  SameEntries(id)
<1>1. CASE finished' = finished
  BY <1>1 DEF SameEntries, Mine
<1>2. CASE finished' = Append(finished, Entry(p)) /\ copy[p].id # id
  <2>1. PICK n \in Nat :
          /\ DOMAIN finished' = DOMAIN finished \cup {n} /\ n \notin DOMAIN finished /\ finished'[n] = Entry(p)
          /\ \A i \in DOMAIN finished : i \in Nat /\ i < n /\ finished'[i] = finished[i]
    <3>1. finished \in Seq(Entries) /\ Entry(p) \in Entries
      BY EntryTyped DEF TypeOK
    <3> QED  BY <1>2, <3>1, Appended
  <2>2. finished'[n].id # id
    BY <1>2, <2>1 DEF Entry
  <2> QED  BY <2>1, <2>2 DEF SameEntries, Mine
<1> QED  BY <1>1, <1>2

\* An entry of one's own is the last of the incident.
LEMMA FinishedMine ==
  ASSUME TypeOK, NEW p \in Invocations, finished' = Append(finished, Entry(p)), NEW id, copy[p].id = id
  PROVE  /\ Added(id)' = Added(id) \cup {p}
         /\ \E n : /\ Resolving(id)' = Resolving(id) \cup {i \in {n} : copy[p].resolves}
                   /\ n \notin Resolving(id)
         /\ \A s : (copy[p].asked = s /\ s # NoStatus) \/ (copy[p].asked = NoStatus /\ LastAsked(id, s))
                     => LastAsked(id, s)'
<1>0. finished \in Seq(Entries) /\ Entry(p) \in Entries
  BY EntryTyped DEF TypeOK
<1>1. PICK n \in Nat :
        /\ DOMAIN finished' = DOMAIN finished \cup {n} /\ n \notin DOMAIN finished /\ finished'[n] = Entry(p)
        /\ \A i \in DOMAIN finished : i \in Nat /\ i < n /\ finished'[i] = finished[i]
  BY <1>0, Appended
<1>2. /\ finished'[n].id = id /\ finished'[n].by = p /\ finished'[n].asked = copy[p].asked
      /\ finished'[n].resolves = copy[p].resolves
  BY <1>1 DEF Entry
<1>3. /\ Mine(id)' = Mine(id) \cup {n} /\ n \notin Mine(id)
      /\ \A i \in Mine(id) : i \in Nat /\ i < n /\ finished'[i] = finished[i]
  BY <1>1, <1>2 DEF Mine
<1>4. Added(id)' = Added(id) \cup {p}
  <2>1. \A x : x \in Added(id)' <=> x = p \/ \E i \in Mine(id) : x = finished[i].by
    BY <1>2, <1>3 DEF Added
  <2>2. \A x : x \in Added(id) <=> \E i \in Mine(id) : x = finished[i].by
    BY DEF Added
  <2> QED  BY <2>1, <2>2
<1>5. Resolving(id)' = Resolving(id) \cup {i \in {n} : copy[p].resolves} /\ n \notin Resolving(id)
  BY <1>2, <1>3 DEF Resolving
<1>6. ASSUME NEW s, copy[p].asked = s, s # NoStatus PROVE LastAsked(id, s)'
  <2>1. \A i \in Mine(id)' : ~(i > n)
    BY <1>3
  <2>2. n \in Mine(id)' /\ finished'[n].asked = s
    BY <1>2, <1>3, <1>6
  <2> QED  BY <1>6, <2>1, <2>2 DEF LastAsked
<1>7. ASSUME NEW s, copy[p].asked = NoStatus, LastAsked(id, s) PROVE LastAsked(id, s)'
  <2>1. PICK i \in Mine(id) : /\ finished[i].asked = s /\ s # NoStatus
                              /\ \A j \in Mine(id) : j > i => finished[j].asked = NoStatus
    BY <1>7 DEF LastAsked
  <2>2. i \in Mine(id)' /\ finished'[i].asked = s
    BY <1>3, <2>1
  <2>3. \A j \in Mine(id)' : j > i => finished'[j].asked = NoStatus
    BY <1>2, <1>3, <1>7, <2>1
  <2> QED  BY <2>1, <2>2, <2>3 DEF LastAsked
<1> QED  BY <1>4, <1>5, <1>6, <1>7

\* The line an invocation writes, and the log after it.
Line(p, action) == [id |-> copy[p].id, action |-> action, status |-> copy[p].report.status]

LEMMA LineTyped ==
  ASSUME TypeOK, NEW p \in Invocations, NEW action \in Actions
  PROVE  Line(p, action) \in LogLines /\ audit \in Seq(LogLines)
<1>1. copy[p].id \in Identifiers /\ copy[p].report.status \in {"open", "investigating", "resolved"}
  BY DEF TypeOK, Copies, Reports
<1> QED  BY <1>1 DEF Line, LogLines, TypeOK

LEMMA AuditAfter ==
  ASSUME TypeOK, NEW p \in Invocations, NEW action \in Actions, NEW id,
         audit' = audit \/ (audit' = Append(audit, Line(p, action)) /\ copy[p].id # id)
  PROVE  SameLines(id)
<1>1. CASE audit' = audit
  BY <1>1 DEF SameLines, Lines
<1>2. CASE audit' = Append(audit, Line(p, action)) /\ copy[p].id # id
  <2>1. PICK n \in Nat :
          /\ DOMAIN audit' = DOMAIN audit \cup {n} /\ n \notin DOMAIN audit /\ audit'[n] = Line(p, action)
          /\ \A i \in DOMAIN audit : i \in Nat /\ i < n /\ audit'[i] = audit[i]
    BY <1>2, LineTyped, Appended
  <2>2. audit'[n].id # id
    BY <1>2, <2>1 DEF Line
  <2> QED  BY <2>1, <2>2 DEF SameLines, Lines
<1> QED  BY <1>1, <1>2

\* The line of p is the last of the incident, and one more of its action.
LineAdded(id, p, action) ==
  /\ \A s : copy[p].report.status = s => LastLogged(id, s)'
  /\ \A other : other # action => Logged(id, other)' = Logged(id, other)
  /\ \E n : /\ Lines(id)' = Lines(id) \cup {n}
            /\ Logged(id, action)' = Logged(id, action) \cup {n} /\ n \notin Logged(id, action)

LEMMA AuditMine ==
  ASSUME TypeOK, NEW p \in Invocations, NEW action \in Actions, NEW id, copy[p].id = id,
         audit' = Append(audit, Line(p, action))
  PROVE  LineAdded(id, p, action)
<1>0. audit \in Seq(LogLines) /\ Line(p, action) \in LogLines
  BY LineTyped
<1>1. PICK n \in Nat :
        /\ DOMAIN audit' = DOMAIN audit \cup {n} /\ n \notin DOMAIN audit /\ audit'[n] = Line(p, action)
        /\ \A i \in DOMAIN audit : i \in Nat /\ i < n /\ audit'[i] = audit[i]
  BY <1>0, Appended
<1>2. /\ audit'[n].id = id /\ audit'[n].action = action /\ audit'[n].status = copy[p].report.status
  BY <1>1 DEF Line
<1>3. /\ Lines(id)' = Lines(id) \cup {n} /\ n \notin Lines(id)
      /\ \A i \in Lines(id) : i \in Nat /\ i < n /\ audit'[i] = audit[i]
  BY <1>1, <1>2 DEF Lines
<1>4. Logged(id, action)' = Logged(id, action) \cup {n} /\ n \notin Logged(id, action)
  BY <1>2, <1>3 DEF Logged
<1>5. \A other : other # action => Logged(id, other)' = Logged(id, other)
  BY <1>2, <1>3 DEF Logged
<1>6. ASSUME NEW s, copy[p].report.status = s PROVE LastLogged(id, s)'
  <2>1. n \in Lines(id)' /\ audit'[n].status = s /\ \A j \in Lines(id)' : j <= n
    BY <1>2, <1>3, <1>6
  <2> QED  BY <2>1 DEF LastLogged
<1> QED  BY <1>3, <1>4, <1>5, <1>6 DEF LineAdded

\* What concerns one incident is as it was.
Apart(id) ==
  /\ files'[id] = files[id] /\ Working(id)' = Working(id)
  /\ \A q \in Working(id) : todo'[q] = todo[q] /\ copy'[q] = copy[q]
  /\ SameEntries(id) /\ SameLines(id)

LEMMA ApartKeeps ==
  ASSUME NEW id, Apart(id)
  PROVE  (FileTells(id) => FileTells(id)') /\ (LogTells(id) => LogTells(id)')
<1>1. /\ files'[id] = files[id] /\ Working(id)' = Working(id) /\ Mine(id)' = Mine(id) /\ Lines(id)' = Lines(id)
      /\ SameEntries(id) /\ SameLines(id)
  BY DEF Apart, SameEntries, SameLines
<1>2. /\ Resolving(id)' = Resolving(id)
      /\ \A r : Says(id, r)' <=> Says(id, r)
      /\ \A p, c : WouldSay(id, p, c)' <=> WouldSay(id, p, c)
      /\ \A action : Logged(id, action)' = Logged(id, action)
      /\ \A s : LastLogged(id, s)' <=> LastLogged(id, s)
  BY <1>1, EntriesKeep, LinesKeep
<1>3. Untouched(id)' <=> Untouched(id)
  BY <1>1 DEF Untouched
<1>4. Kept(id)' <=> Kept(id)
  <2>1. PICK r : r = files[id].report
    OBVIOUS
  <2>2. Kept(id) <=> files[id].state = "whole" /\ Says(id, r)
    BY <2>1, Zenon DEF Kept
  <2>3. Kept(id)' <=> files'[id].state = "whole" /\ Says(id, r)'
    <3>1. Kept(id)' <=> files'[id].state = "whole" /\ Says(id, files[id].report)'
      BY DEF Kept
    <3>2. Says(id, files[id].report)' <=> Says(id, r)'
      BY <1>1, <2>1 DEF Says
    <3> QED  BY <3>1, <3>2
  <2> QED  BY <1>1, <1>2, <2>2, <2>3
<1>5. Counts(id)' <=> Counts(id)
  BY <1>1, <1>2 DEF Counts
<1>6. ASSUME NEW q \in Working(id)
      PROVE  (KeptBy(id, q) => KeptBy(id, q)') /\ (LoggedBy(id, q) => LoggedBy(id, q)')
  <2>1. todo'[q] = todo[q] /\ copy'[q] = copy[q]
    BY <1>6 DEF Apart
  <2>2. PICK c : c = copy[q]
    OBVIOUS
  <2>3. WouldSay(id, q, copy[q])' <=> WouldSay(id, q, copy[q])
    <3>1. WouldSay(id, q, copy[q])' <=> WouldSay(id, q, c)'
      BY <2>1, <2>2 DEF WouldSay
    <3> QED  BY <1>2, <2>2, <3>1, Zenon
  <2>4. LastLogged(id, copy[q].report.status)' <=> LastLogged(id, copy[q].report.status)
    <3>1. PICK s : s = copy[q].report.status
      OBVIOUS
    <3>2. LastLogged(id, copy[q].report.status)' <=> LastLogged(id, s)'
      BY <2>1, <3>1 DEF LastLogged
    <3> QED  BY <1>2, <3>1, <3>2, Zenon
  <2>5. KeptBy(id, q) => KeptBy(id, q)'
    BY <1>1, <1>3, <1>4, <2>1, <2>3 DEF KeptBy
  <2>6. LoggedBy(id, q) => LoggedBy(id, q)'
    BY <1>1, <1>2, <1>5, <2>1, <2>4 DEF LoggedBy
  <2> QED  BY <2>5, <2>6
<1>7. LastLogged(id, files[id].report.status)' <=> LastLogged(id, files[id].report.status)
  <2>1. PICK s : s = files[id].report.status
    OBVIOUS
  <2>2. LastLogged(id, files[id].report.status)' <=> LastLogged(id, s)'
    BY <1>1, <2>1 DEF LastLogged
  <2> QED  BY <1>2, <2>1, <2>2, Zenon
<1>8. FileTells(id) => FileTells(id)'
  BY <1>1, <1>3, <1>4, <1>6 DEF FileTells
<1>9. LogTells(id) => LogTells(id)'
  BY <1>1, <1>3, <1>5, <1>6, <1>7 DEF LogTells
<1> QED  BY <1>8, <1>9

-------------------------------------------------------------------------------
(* A step on another incident *)

LEMMA LogTakes ==
  ASSUME NEW p \in Invocations, logToAudit(p)
  PROVE  \E action \in Actions :
           /\ Takes(p, action)
           /\ \/ audit' = Append(audit, Line(p, action)) /\ unlogged' = unlogged
              \/ audit' = audit /\ unlogged' = unlogged \cup {copy[p].id}
<1>1. PICK action \in Actions :
        /\ Takes(p, action)
        /\ \/ /\ audit' = Append(audit, [id |-> copy[p].id, action |-> action, status |-> copy[p].report.status])
              /\ UNCHANGED unlogged
           \/ UNCHANGED audit /\ unlogged' = unlogged \cup {copy[p].id}
  BY Zenon DEF logToAudit
<1> QED  BY <1>1, Zenon DEF Line

LEMMA StepApart ==
  ASSUME TypeOK, NEW p \in Invocations, Step(p), NEW id \in Identifiers, id # copy[p].id
  PROVE  Apart(id) /\ (id \in spoiled' <=> id \in spoiled) /\ (id \in unlogged' <=> id \in unlogged)
<1>1. Others(p) /\ Held(p) /\ copy[p].id \in Identifiers
  BY ActsAlone DEF Held
<1>2. Working(id)' = Working(id) /\ p \notin Working(id)
  BY <1>1, WorkingAfter DEF Held
<1>3. \A q \in Working(id) : todo'[q] = todo[q] /\ copy'[q] = copy[q]
  BY <1>1, <1>2 DEF Others, Working
<1>4. files'[id] = files[id] /\ (id \in spoiled' <=> id \in spoiled)
  <2>1. files \in [Identifiers -> Files]
    BY DEF TypeOK
  <2>2. CASE Truncate(p)
    BY <1>1, <2>1, <2>2 DEF Truncate
  <2>3. CASE Write(p)
    BY <1>1, <2>1, <2>3 DEF Write
  <2>4. CASE Add(p) \/ Notes(p) \/ logToAudit(p)
    BY <1>1, <2>4 DEF Add, Notes, logToAudit
  <2>5. CASE Stop(p)
    BY <1>1, <2>1, <2>5 DEF Stop
  <2> QED  BY <2>2, <2>3, <2>4, <2>5 DEF Step
<1>5. finished' = finished \/ finished' = Append(finished, Entry(p))
  BY DEF Step, Add, Notes, Truncate, Write, logToAudit, Stop, Takes
<1>6. SameEntries(id)
  BY <1>5, FinishedAfter
<1>7. SameLines(id) /\ (id \in unlogged' <=> id \in unlogged)
  <2>1. CASE logToAudit(p)
    <3>1. PICK action \in Actions :
            \/ audit' = Append(audit, Line(p, action)) /\ unlogged' = unlogged
            \/ audit' = audit /\ unlogged' = unlogged \cup {copy[p].id}
      BY <2>1, LogTakes
    <3> QED  BY <3>1, AuditAfter
  <2>2. CASE ~logToAudit(p)
    <3>1. audit' = audit /\ unlogged' = unlogged
      BY <2>2 DEF Step, Add, Notes, Truncate, Write, Stop
    <3> QED  BY <3>1 DEF SameLines, Lines
  <2> QED  BY <2>1, <2>2
<1> QED  BY <1>2, <1>3, <1>4, <1>6, <1>7 DEF Apart

LEMMA BegunApart ==
  ASSUME TypeOK, NEW p \in Invocations, NEW j, NEW c, NEW steps, Begun(p, j, c, steps),
         NEW id \in Identifiers, id # j
  PROVE  Apart(id) /\ (id \in spoiled' <=> id \in spoiled) /\ (id \in unlogged' <=> id \in unlogged)
<1>1. Others(p) /\ copy'[p] = c /\ c.id = j /\ todo[p] = <<>>
  <2>1. Others(p) /\ copy'[p] = c
    BY ActsAlone, Zenon
  <2> QED  BY <2>1 DEF Begun
<1>2. Working(id)' = Working(id) /\ p \notin Working(id)
  BY <1>1, WorkingAfter
<1>3. \A q \in Working(id) : todo'[q] = todo[q] /\ copy'[q] = copy[q]
  BY <1>1, <1>2 DEF Others, Working
<1>4. UNCHANGED <<files, audit, finished, unlogged>> /\ (id \in spoiled' <=> id \in spoiled)
  BY DEF Begun
<1>5. SameEntries(id) /\ SameLines(id)
  BY <1>4 DEF SameEntries, SameLines, Mine, Lines
<1> QED  BY <1>2, <1>3, <1>4, <1>5 DEF Apart

-------------------------------------------------------------------------------
(* A step on one's own incident *)

\* With its entry in the history, the copy is what the history says.
LEMMA DoneSays ==
  ASSUME TypeOK, NEW p \in Invocations, finished' = Append(finished, Entry(p)),
         NEW id, copy[p].id = id, NEW c, c = copy[p], WouldSay(id, p, c)
  PROVE  Says(id, c.report)'
<1>1. Added(id)' = Added(id) \cup {p}
  BY FinishedMine
<1>2. PICK n : Resolving(id)' = Resolving(id) \cup {i \in {n} : copy[p].resolves}
  BY FinishedMine
<1>3. LastAsked(id, c.report.status)'
  <2>1. PICK s : s = c.report.status
    OBVIOUS
  <2>2. (copy[p].asked = s /\ s # NoStatus) \/ (copy[p].asked = NoStatus /\ LastAsked(id, s))
    BY <2>1 DEF WouldSay
  <2>3. LastAsked(id, s)'
    BY <2>2, FinishedMine
  <2> QED  BY <2>1, <2>3
<1>4. c.report.by = Added(id)'
  BY <1>1 DEF WouldSay
<1>5. c.report.resolvedAt <=> Resolving(id)' # {}
  BY <1>2 DEF WouldSay
<1> QED  BY <1>3, <1>4, <1>5 DEF Says

\* The one who works on an incident that is not spoiled.
LEMMA OneAtWork ==
  ASSUME TypeOK, Alone, [Next]_vars, NEW p \in Invocations, Step(p), NEW id, copy[p].id = id, id \notin spoiled'
  PROVE  /\ id \in Identifiers /\ id \notin spoiled /\ Working(id) = {p} /\ ~Stop(p)
         /\ todo'[p] = <<>> => Working(id)' = {}
         /\ todo'[p] # <<>> => Working(id)' = {p}
<1>1. Others(p) /\ Held(p) /\ p \in Working(id) /\ id \in Identifiers /\ id \notin spoiled
  BY ActsAlone, StepWorks, SpoiledGrows DEF Held
<1>2. Working(id) = {p}
  BY <1>1 DEF Alone
<1>3. Working(id)' = (Working(id) \ {p}) \cup {q \in {p} : todo'[p] # <<>>}
  BY <1>1, WorkingAfter DEF Held
<1>4. ~Stop(p)
  BY DEF Stop
<1> QED  BY <1>1, <1>2, <1>3, <1>4

\* What FileTells asks for, from what the one at work does.
LEMMA TellsFile ==
  ASSUME NEW id, NEW p, Working(id)' \subseteq {p}, Working(id)' # {} => KeptBy(id, p)',
         Working(id)' = {} => (Untouched(id) \/ Kept(id))'
  PROVE  FileTells(id)'
BY DEF FileTells

LEMMA KeptPrime ==
  ASSUME NEW id, NEW c, files'[id] = Whole(c.report), Says(id, c.report)'
  PROVE  Kept(id)'
<1>1. files'[id].state = "whole" /\ files'[id].report = c.report
  BY DEF Whole
<1>2. Says(id, files[id].report)' <=> Says(id, c.report)'
  BY <1>1 DEF Says
<1> QED  BY <1>1, <1>2 DEF Kept

LEMMA WouldSayKept ==
  ASSUME NEW id, NEW p, NEW c, c = copy[p], copy'[p] = c, SameEntries(id)
  PROVE  WouldSay(id, p, copy[p])' <=> WouldSay(id, p, copy[p])
<1>1. WouldSay(id, p, copy[p])' <=> WouldSay(id, p, c)'
  BY DEF WouldSay
<1>2. WouldSay(id, p, c)' <=> WouldSay(id, p, c)
  BY EntriesKeep
<1> QED  BY <1>1, <1>2, Zenon

LEMMA TruncateTells ==
  ASSUME TypeOK, Shaped, Alone, FileStory, [Next]_vars,
         NEW p \in Invocations, Truncate(p), NEW id, copy[p].id = id, id \notin spoiled'
  PROVE  FileTells(id)'
<1>1. /\ id \in Identifiers /\ id \notin spoiled /\ Working(id) = {p}
      /\ todo'[p] = <<>> => Working(id)' = {}
      /\ todo'[p] # <<>> => Working(id)' = {p}
  BY OneAtWork DEF Step
<1>2. KeptBy(id, p)
  BY <1>1 DEF FileStory, FileTells
<1>3. copy' = copy /\ Moves(p, "truncate")
  BY TakesMoves DEF Truncate
<1>4. copy[p].report = NewReport => files[id] = Absent
  BY DEF Truncate
<1>5. files'[id] = Empty
  BY <1>1 DEF Truncate, TypeOK
<1>6. \A from, to : Move(p, from, to) => todo[p] = from /\ todo'[p] = to /\ (to # <<>> => finished' = finished)
  BY DEF Move, TypeOK
<1>7. todo'[p] # <<>> /\ finished' = finished
  BY <1>3, <1>6, Distinct DEF Moves
<1>8. SameEntries(id)
  BY <1>7 DEF SameEntries, Mine
<1>9. PICK c : c = copy[p]
  OBVIOUS
<1>10. WouldSay(id, p, copy[p])' <=> WouldSay(id, p, copy[p])
  BY <1>3, <1>8, <1>9, WouldSayKept
<1>11. KeptBy(id, p)'
  <2>1. CASE Move(p, R6, R5)
    <3>1. todo[p] = R6 /\ todo'[p] = R5
      BY <1>6, <2>1
    <3>2. copy[p].report = NewReport /\ Mine(id) = {}
      BY <1>2, <1>4, <3>1 DEF KeptBy, Untouched
    <3>3. Mine(id)' = {} /\ copy'[p].report = NewReport
      BY <1>3, <1>8, <3>2 DEF SameEntries
    <3> QED  BY <1>5, <3>1, <3>3, Distinct DEF KeptBy
  <2>2. ASSUME NEW from \in {R2, U3, S4}, NEW to \in {R1, U2, S3}, Move(p, from, to) PROVE KeptBy(id, p)'
    <3>1. todo[p] = from /\ todo'[p] = to
      BY <1>6, <2>2
    <3>2. WouldSay(id, p, copy[p])'
      BY <1>2, <1>10, <3>1 DEF KeptBy
    <3> QED  BY <1>5, <3>1, <3>2, Distinct DEF KeptBy
  <2> QED  BY <1>3, <2>1, <2>2 DEF Moves
<1> QED  BY <1>1, <1>7, <1>11, TellsFile

LEMMA WriteTells ==
  ASSUME TypeOK, Shaped, Alone, FileStory, [Next]_vars,
         NEW p \in Invocations, Write(p), NEW id, copy[p].id = id, id \notin spoiled'
  PROVE  FileTells(id)'
<1>1. /\ id \in Identifiers /\ id \notin spoiled /\ Working(id) = {p}
      /\ todo'[p] = <<>> => Working(id)' = {}
      /\ todo'[p] # <<>> => Working(id)' = {p}
  BY OneAtWork DEF Step
<1>2. KeptBy(id, p)
  BY <1>1 DEF FileStory, FileTells
<1>3. copy' = copy /\ Moves(p, "write")
  BY TakesMoves DEF Write
<1>4. PICK c : c = copy[p]
  OBVIOUS
<1>5. files'[id] = Whole(c.report) /\ copy'[p] = c
  <2>1. todo[p] \in {R5, R1, U2, S3}
    BY <1>3 DEF Moves, Move
  <2>2. files[id] = Empty
    BY <1>2, <2>1 DEF KeptBy
  <2> QED  BY <1>1, <1>3, <1>4, <2>2 DEF Write, TypeOK
<1>6. \A from, to : Move(p, from, to) =>
        /\ todo[p] = from /\ todo'[p] = to /\ (to # <<>> => finished' = finished)
        /\ to = <<>> => finished' = Append(finished, Entry(p))
  BY DEF Move, TypeOK
<1>7. finished' = finished => SameEntries(id)
  BY DEF SameEntries, Mine
<1>8. CASE Move(p, R5, R4)
  <2>1. todo[p] = R5 /\ todo'[p] = R4 /\ SameEntries(id) /\ todo'[p] # <<>>
    BY <1>6, <1>7, <1>8, Distinct
  <2>2. copy[p].report = NewReport /\ Mine(id) = {}
    BY <1>2, <2>1 DEF KeptBy
  <2>3. Mine(id)' = {} /\ copy'[p].report = NewReport /\ files'[id] = Whole(copy'[p].report)
    BY <1>3, <1>4, <1>5, <2>1, <2>2 DEF SameEntries
  <2>4. KeptBy(id, p)'
    BY <2>1, <2>3, Distinct DEF KeptBy
  <2> QED  BY <1>1, <2>1, <2>4, TellsFile
<1>9. CASE Move(p, R1, <<>>)
  <2>1. todo[p] = R1 /\ todo'[p] = <<>> /\ finished' = Append(finished, Entry(p))
    BY <1>6, <1>9
  <2>2. WouldSay(id, p, c)
    BY <1>2, <1>4, <2>1 DEF KeptBy
  <2>3. Says(id, c.report)'
    BY <1>4, <2>1, <2>2, DoneSays
  <2>4. Kept(id)'
    BY <1>5, <2>3, KeptPrime
  <2> QED  BY <1>1, <2>1, <2>4, TellsFile
<1>10. ASSUME NEW from \in {U2, S3}, NEW to \in {U1, S2}, Move(p, from, to) PROVE FileTells(id)'
  <2>1. todo[p] = from /\ todo'[p] = to /\ SameEntries(id) /\ todo'[p] # <<>>
    BY <1>6, <1>7, <1>10, Distinct
  <2>2. WouldSay(id, p, copy[p])'
    BY <1>2, <1>4, <1>5, <2>1, WouldSayKept DEF KeptBy
  <2>3. files'[id] = Whole(copy'[p].report)
    BY <1>5
  <2>4. KeptBy(id, p)'
    BY <2>1, <2>2, <2>3, Distinct DEF KeptBy
  <2> QED  BY <1>1, <2>1, <2>4, TellsFile
<1> QED  BY <1>3, <1>8, <1>9, <1>10 DEF Moves

LEMMA AddTells ==
  ASSUME TypeOK, Shaped, Alone, FileStory, [Next]_vars,
         NEW p \in Invocations, Add(p), NEW id, copy[p].id = id, id \notin spoiled'
  PROVE  FileTells(id)'
<1>1. /\ id \in Identifiers /\ id \notin spoiled /\ Working(id) = {p}
      /\ todo'[p] # <<>> => Working(id)' = {p}
  BY OneAtWork DEF Step
<1>2. KeptBy(id, p)
  BY <1>1 DEF FileStory, FileTells
<1>3. Move(p, R3, R2)
  BY TakesMoves DEF Add, Moves
<1>4. todo[p] = R3 /\ todo'[p] = R2 /\ todo'[p] # <<>> /\ finished' = finished
  BY <1>3, Distinct DEF Move, TypeOK
<1>5. files' = files
  BY DEF Add
<1>6. PICK c \in Copies :
        /\ copy' = [copy EXCEPT ![p] = c] /\ c.asked = copy[p].asked
        /\ c.resolves = copy[p].resolves
        /\ c.report = [copy[p].report EXCEPT !.by = copy[p].report.by \cup {p}]
  BY CopyEdits
<1>7. copy'[p] = c
  BY <1>6 DEF TypeOK
<1>8. copy[p].asked = "open" /\ ~copy[p].resolves
  BY <1>4, Distinct DEF Shaped, Shape, UpdatesLeft, ResolvesLeft
<1>9. copy[p].report = NewReport /\ Mine(id) = {} /\ files[id] = Whole(NewReport)
  BY <1>2, <1>4, Distinct DEF KeptBy
<1>10. c.report.by = {p} /\ c.report.status = "open" /\ c.report.resolvedAt = FALSE
  BY <1>6, <1>9 DEF NewReport
<1>11. Mine(id)' = {}
  BY <1>4, <1>9 DEF Mine
<1>12. Added(id)' = {} /\ Resolving(id)' = {}
  BY <1>11 DEF Added, Resolving
<1>13. WouldSay(id, p, copy[p])'
  BY <1>6, <1>7, <1>8, <1>10, <1>12 DEF WouldSay, NoStatus
<1>14. files'[id] # Absent
  BY <1>5, <1>9 DEF Whole, Absent
<1>15. KeptBy(id, p)'
  BY <1>4, <1>13, <1>14, Distinct DEF KeptBy
<1> QED  BY <1>1, <1>4, <1>15, TellsFile

LEMMA NotesTells ==
  ASSUME TypeOK, Shaped, Alone, FileStory, [Next]_vars,
         NEW p \in Invocations, Notes(p), NEW id, copy[p].id = id, id \notin spoiled'
  PROVE  FileTells(id)'
<1>1. /\ id \in Identifiers /\ id \notin spoiled /\ Working(id) = {p}
      /\ todo'[p] # <<>> => Working(id)' = {p}
  BY OneAtWork DEF Step
<1>2. KeptBy(id, p)
  BY <1>1 DEF FileStory, FileTells
<1>3. Move(p, S5, S4)
  BY TakesMoves DEF Notes, Moves
<1>4. todo[p] = S5 /\ todo'[p] = S4 /\ todo'[p] # <<>> /\ finished' = finished
  BY <1>3, Distinct DEF Move, TypeOK
<1>5. files' = files
  BY DEF Notes
<1>6. PICK c \in Copies :
        /\ copy' = [copy EXCEPT ![p] = c] /\ c.asked = copy[p].asked
        /\ c.resolves = copy[p].resolves
        /\ c.report = [status |-> "resolved", resolvedAt |-> TRUE, by |-> copy[p].report.by \cup {p}]
  BY CopyEdits
<1>7. copy'[p] = c
  BY <1>6 DEF TypeOK
<1>8. copy[p].asked = "resolved" /\ copy[p].resolves
  BY <1>4, Distinct DEF Shaped, Shape, UpdatesLeft, ReportsLeft
<1>9. Kept(id) /\ copy[p].report = files[id].report
  BY <1>2, <1>4, Distinct DEF KeptBy
<1>10. c.report.by = Added(id) \cup {p} /\ c.report.status = "resolved" /\ c.report.resolvedAt = TRUE
  BY <1>6, <1>9 DEF Kept, Says
<1>11. SameEntries(id)
  BY <1>4 DEF SameEntries, Mine
<1>12. Added(id)' = Added(id)
  BY <1>11, EntriesKeep
<1>13. WouldSay(id, p, copy[p])'
  BY <1>6, <1>7, <1>8, <1>10, <1>12 DEF WouldSay, NoStatus
<1>14. files'[id] # Absent
  BY <1>5, <1>9 DEF Kept, Absent
<1>15. KeptBy(id, p)'
  BY <1>4, <1>13, <1>14, Distinct DEF KeptBy
<1> QED  BY <1>1, <1>4, <1>15, TellsFile

LEMMA AuditTells ==
  ASSUME TypeOK, Shaped, Alone, FileStory, [Next]_vars,
         NEW p \in Invocations, logToAudit(p), NEW id, copy[p].id = id, id \notin spoiled'
  PROVE  FileTells(id)'
<1>1. /\ id \in Identifiers /\ id \notin spoiled /\ Working(id) = {p}
      /\ todo'[p] = <<>> => Working(id)' = {}
      /\ todo'[p] # <<>> => Working(id)' = {p}
  BY OneAtWork DEF Step
<1>2. KeptBy(id, p)
  BY <1>1 DEF FileStory, FileTells
<1>3. copy' = copy /\ files' = files
  BY DEF logToAudit
<1>4. PICK action \in Actions : Moves(p, action)
  BY LogTakes, TakesMoves
<1>5. PICK c : c = copy[p]
  OBVIOUS
<1>6. \A from, to : Move(p, from, to) =>
        /\ todo[p] = from /\ todo'[p] = to /\ (to # <<>> => finished' = finished)
        /\ to = <<>> => finished' = Append(finished, Entry(p))
  BY DEF Move, TypeOK
<1>7. finished' = finished => SameEntries(id)
  BY DEF SameEntries, Mine
<1>8. CASE Move(p, R4, R3)
  <2>1. todo[p] = R4 /\ todo'[p] = R3 /\ SameEntries(id) /\ todo'[p] # <<>>
    BY <1>6, <1>7, <1>8, Distinct
  <2>2. copy[p].report = NewReport /\ Mine(id) = {} /\ files[id] = Whole(copy[p].report)
    BY <1>2, <2>1 DEF KeptBy
  <2>3. Mine(id)' = {} /\ copy'[p].report = NewReport /\ files'[id] = Whole(copy'[p].report)
    BY <1>3, <2>1, <2>2 DEF SameEntries
  <2>4. KeptBy(id, p)'
    BY <2>1, <2>3, Distinct DEF KeptBy
  <2> QED  BY <1>1, <2>1, <2>4, TellsFile
<1>9. ASSUME NEW from \in {U1, S1}, Move(p, from, <<>>) PROVE FileTells(id)'
  <2>1. todo[p] = from /\ todo'[p] = <<>> /\ finished' = Append(finished, Entry(p))
    BY <1>6, <1>9
  <2>2. WouldSay(id, p, c) /\ files'[id] = Whole(c.report)
    BY <1>2, <1>3, <1>5, <2>1 DEF KeptBy
  <2>3. Says(id, c.report)'
    BY <1>5, <2>1, <2>2, DoneSays
  <2>4. Kept(id)'
    BY <2>2, <2>3, KeptPrime
  <2> QED  BY <1>1, <2>1, <2>4, TellsFile
<1>10. ASSUME Move(p, S2, S1) PROVE FileTells(id)'
  <2>1. todo[p] = S2 /\ todo'[p] = S1 /\ SameEntries(id) /\ todo'[p] # <<>>
    BY <1>6, <1>7, <1>10, Distinct
  <2>2. WouldSay(id, p, copy[p])'
    BY <1>2, <1>3, <1>5, <2>1, WouldSayKept DEF KeptBy
  <2>3. files'[id] = Whole(copy'[p].report)
    BY <1>2, <1>3, <2>1 DEF KeptBy
  <2>4. KeptBy(id, p)'
    BY <2>1, <2>2, <2>3, Distinct DEF KeptBy
  <2> QED  BY <1>1, <2>1, <2>4, TellsFile
<1> QED  BY <1>4, <1>8, <1>9, <1>10 DEF Moves, Actions

LEMMA BegunTells ==
  ASSUME TypeOK, FileStory, [Next]_vars, NEW p \in Invocations, NEW id, NEW c,
         BeginsReport(p, id, c) \/ BeginsUpdate(p, id, c) \/ BeginsResolve(p, id, c), id \notin spoiled'
  PROVE  FileTells(id)'
<1>1. PICK steps : Begun(p, id, c, steps)
  BY DEF BeginsReport, BeginsUpdate, BeginsResolve
<1>2. /\ Others(p) /\ copy'[p] = c /\ c.id = id /\ todo[p] = <<>> /\ id \in Identifiers
      /\ UNCHANGED <<files, audit, finished>>
  <2>1. Others(p) /\ copy'[p] = c
    BY <1>1, ActsAlone, Zenon
  <2> QED  BY <1>1, <2>1 DEF Begun
<1>3. Working(id) = {} /\ id \notin spoiled
  BY <1>1 DEF Begun
<1>4. Untouched(id) \/ Kept(id)
  BY <1>2, <1>3 DEF FileStory, FileTells
<1>5. Working(id)' \subseteq {p}
  <2>1. Working(id)' = (Working(id) \ {p}) \cup {q \in {p} : todo'[p] # <<>>}
    BY <1>2, WorkingAfter
  <2> QED  BY <1>3, <2>1
<1>6. SameEntries(id) /\ SameLines(id)
  BY <1>2 DEF SameEntries, SameLines, Mine, Lines
<1>7. CASE BeginsReport(p, id, c)
  <2>1. todo'[p] = R6 /\ c.report = NewReport
    BY <1>7, ActsAlone DEF BeginsReport
  <2>2. Untouched(id) => Untouched(id)'
    BY <1>2, <1>6 DEF Untouched, SameEntries, SameLines
  <2>3. files'[id] = Absent => Untouched(id)'
    BY <1>2, <1>4, <2>2 DEF Kept, Absent
  <2>4. KeptBy(id, p)'
    BY <1>2, <2>1, <2>3, Distinct DEF KeptBy
  <2>5. Working(id)' # {}
    BY <1>2, <2>1, Distinct DEF Working
  <2> QED  BY <1>5, <2>4, <2>5, TellsFile
<1>8. CASE BeginsUpdate(p, id, c)
  <2>1. todo'[p] = U3 /\ Loads(id) /\ ~c.resolves
    BY <1>8, ActsAlone DEF BeginsUpdate
  <2>2. Kept(id) /\ files'[id] # Absent
    BY <1>2, <1>4, <2>1 DEF Untouched, Absent, Loads
  <2>3. WouldSay(id, p, c)
    BY <1>8, <2>2 DEF WouldSay, BeginsUpdate, Kept, Says
  <2>4. WouldSay(id, p, c)'
    BY <1>6, <2>3, EntriesKeep
  <2>5. WouldSay(id, p, copy[p])'
    BY <1>2, <2>4 DEF WouldSay
  <2>6. KeptBy(id, p)'
    BY <2>1, <2>2, <2>5, Distinct DEF KeptBy
  <2>7. Working(id)' # {}
    BY <1>2, <2>1, Distinct DEF Working
  <2> QED  BY <1>5, <2>6, <2>7, TellsFile
<1>9. CASE BeginsResolve(p, id, c)
  <2>1. todo'[p] = S5 /\ Loads(id) /\ c.report = files[id].report
    BY <1>9, ActsAlone DEF BeginsResolve
  <2>2. Kept(id) /\ files'[id] # Absent
    BY <1>2, <1>4, <2>1 DEF Untouched, Absent, Loads
  <2>3. Says(id, c.report)'
    <3>1. PICK r : r = c.report
      OBVIOUS
    <3>2. Says(id, r)
      BY <2>1, <2>2, <3>1 DEF Kept
    <3>3. Says(id, r)'
      BY <1>6, <3>2, EntriesKeep
    <3> QED  BY <3>1, <3>3
  <2>4. Kept(id)'
    <3>1. Says(id, files[id].report)' <=> Says(id, c.report)'
      BY <1>2, <2>1 DEF Says
    <3> QED  BY <1>2, <2>2, <2>3, <3>1 DEF Kept
  <2>5. KeptBy(id, p)'
    BY <1>2, <2>1, <2>2, <2>4, Distinct DEF KeptBy
  <2>6. Working(id)' # {}
    BY <1>2, <2>1, Distinct DEF Working
  <2> QED  BY <1>5, <2>5, <2>6, TellsFile
<1> QED  BY <1>7, <1>8, <1>9

LEMMA StillApart ==
  ASSUME UNCHANGED <<files, audit, todo, copy, history>>, NEW id
  PROVE  Apart(id)
BY DEF Apart, SameEntries, SameLines, Mine, Lines, Working, history

LEMMA FileStoryStep == TypeOK /\ Shaped /\ Alone /\ FileStory /\ [Next]_vars => FileStory'
<1> SUFFICES ASSUME TypeOK, Shaped, Alone, FileStory, [Next]_vars,
                    NEW id \in Identifiers, id \notin spoiled'
             PROVE  FileTells(id)'
  BY DEF FileStory, Identifiers
<1>1. id \notin spoiled /\ FileTells(id)
  BY SpoiledGrows DEF FileStory
<1>2. CASE UNCHANGED <<files, audit, todo, copy, history>>
  BY <1>1, <1>2, StillApart, ApartKeeps
<1>3. ASSUME NEW p \in Invocations, NEW j, NEW c,
             BeginsReport(p, j, c) \/ BeginsUpdate(p, j, c) \/ BeginsResolve(p, j, c)
      PROVE  FileTells(id)'
  <2>1. CASE id # j
    <3>1. PICK steps : Begun(p, j, c, steps)
      BY <1>3 DEF BeginsReport, BeginsUpdate, BeginsResolve
    <3> QED  BY <1>1, <2>1, <3>1, BegunApart, ApartKeeps
  <2>2. CASE id = j
    BY <1>3, <2>2, BegunTells
  <2> QED  BY <2>1, <2>2
<1>4. ASSUME NEW p \in Invocations, Step(p) PROVE FileTells(id)'
  <2>1. CASE id # copy[p].id
    BY <1>1, <1>4, <2>1, StepApart, ApartKeeps
  <2>2. CASE id = copy[p].id
    <3>1. ~Stop(p)
      BY <1>4, <2>2, OneAtWork
    <3> QED  BY <1>4, <2>2, <3>1, TruncateTells, WriteTells, AddTells, NotesTells, AuditTells DEF Step
  <2> QED  BY <2>1, <2>2
<1> QED  BY <1>2, <1>3, <1>4, NextCases

-------------------------------------------------------------------------------
(* The log *)

LEMMA FiniteEntries ==
  ASSUME TypeOK, NEW id, NEW action
  PROVE  IsFiniteSet(Resolving(id)) /\ IsFiniteSet(Logged(id, action))
<1>1. finished \in Seq(Entries) /\ audit \in Seq(LogLines)
  BY DEF TypeOK
<1>2. Len(finished) \in Nat /\ Len(audit) \in Nat /\ DOMAIN finished = 1 .. Len(finished) /\ DOMAIN audit = 1 .. Len(audit)
  BY <1>1
<1>3. IsFiniteSet(DOMAIN finished) /\ IsFiniteSet(DOMAIN audit)
  BY <1>2, FS_Interval
<1>4. Resolving(id) \subseteq DOMAIN finished /\ Logged(id, action) \subseteq DOMAIN audit
  BY DEF Resolving, Mine, Logged, Lines
<1> QED  BY <1>3, <1>4, FS_Subset

\* The counts stay if neither a creation nor a resolution is logged or done.
LEMMA CountsKeep ==
  ASSUME NEW id, Counts(id), Lines(id) \subseteq Lines(id)', Resolving(id)' = Resolving(id),
         Logged(id, "incident_created")' = Logged(id, "incident_created"),
         Logged(id, "incident_resolved")' = Logged(id, "incident_resolved")
  PROVE  Counts(id)'
BY DEF Counts

\* What LogTells asks for, from what the one at work does.
LEMMA TellsLog ==
  ASSUME NEW id, NEW p, Working(id)' \subseteq {p}, Working(id)' # {} => LoggedBy(id, p)',
         Working(id)' = {} => Counts(id)' /\ LastLogged(id, files[id].report.status)'
  PROVE  LogTells(id)'
BY DEF LogTells

\* Without an entry for a resolution, there are no more of them.
LEMMA ResolvingKeeps ==
  ASSUME TypeOK, NEW p \in Invocations, NEW id, copy[p].id = id, ~copy[p].resolves,
         finished' = finished \/ finished' = Append(finished, Entry(p))
  PROVE  Resolving(id)' = Resolving(id)
<1>1. CASE finished' = finished
  BY <1>1 DEF Resolving, Mine
<1>2. CASE finished' = Append(finished, Entry(p))
  <2>1. PICK n : Resolving(id)' = Resolving(id) \cup {i \in {n} : copy[p].resolves}
    BY <1>2, FinishedMine
  <2> QED  BY <2>1
<1> QED  BY <1>1, <1>2

\* Steps that log nothing.
LEMMA QuietLog ==
  ASSUME TypeOK, Shaped, Alone, FileStory, LogStory, [Next]_vars,
         NEW p \in Invocations, Truncate(p) \/ Write(p) \/ Add(p) \/ Notes(p),
         NEW id, copy[p].id = id, id \notin spoiled' \cup unlogged'
  PROVE  LogTells(id)'
<1>1. /\ id \in Identifiers /\ id \notin spoiled /\ Working(id) = {p}
      /\ todo'[p] = <<>> => Working(id)' = {}
      /\ todo'[p] # <<>> => Working(id)' = {p}
  BY OneAtWork DEF Step
<1>2. KeptBy(id, p) /\ LoggedBy(id, p)
  BY <1>1, SpoiledGrows DEF FileStory, FileTells, LogStory, LogTells
<1>3. SameLines(id)
  BY DEF Truncate, Write, Add, Notes, SameLines, Lines
<1>4. /\ Lines(id)' = Lines(id)
      /\ \A action : Logged(id, action)' = Logged(id, action)
      /\ \A s : LastLogged(id, s)' <=> LastLogged(id, s)
  BY <1>3, LinesKeep DEF SameLines
<1>5. \A from, to : Move(p, from, to) =>
        /\ todo[p] = from /\ todo'[p] = to /\ (to # <<>> => finished' = finished)
        /\ to = <<>> => finished' = Append(finished, Entry(p))
  BY DEF Move, TypeOK
<1>6. finished' = finished => Resolving(id)' = Resolving(id)
  BY DEF Resolving, Mine
<1>7. Truncate(p) => Moves(p, "truncate")
  BY TakesMoves DEF Truncate
<1>8. Write(p) => Moves(p, "write")
  BY TakesMoves DEF Write
<1>9. Add(p) => Moves(p, "add")
  BY TakesMoves DEF Add
<1>10. Notes(p) => Moves(p, "notes")
  BY TakesMoves DEF Notes
<1>11. CASE Move(p, R6, R5)
  <2>1. Truncate(p)
    BY <1>5, <1>8, <1>9, <1>10, <1>11, Distinct DEF Moves
  <2>2. todo[p] = R6 /\ todo'[p] = R5
    BY <1>5, <1>11
  <2>3. Lines(id) = {}
    BY <1>2, <2>1, <2>2 DEF KeptBy, Truncate, Untouched
  <2>4. LoggedBy(id, p)' /\ todo'[p] # <<>>
    BY <1>4, <2>2, <2>3, Distinct DEF LoggedBy, UpdatesLeft, ResolvesLeft
  <2> QED  BY <1>1, <2>4, TellsLog
<1>12. CASE Move(p, R5, R4)
  <2>1. todo[p] = R5 /\ todo'[p] = R4
    BY <1>5, <1>12
  <2>2. LoggedBy(id, p)' /\ todo'[p] # <<>>
    BY <1>2, <1>4, <2>1, Distinct DEF LoggedBy, UpdatesLeft, ResolvesLeft
  <2> QED  BY <1>1, <2>2, TellsLog
<1>13. ASSUME NEW from \in {R3, R2}, NEW to \in {R2, R1}, Move(p, from, to) PROVE LogTells(id)'
  <2>1. todo[p] = from /\ todo'[p] = to /\ todo'[p] # <<>> /\ finished' = finished
    BY <1>5, <1>13, Distinct
  <2>2. Counts(id)' /\ LastLogged(id, "open")'
    BY <1>2, <1>4, <1>6, <2>1, CountsKeep DEF LoggedBy
  <2>3. LoggedBy(id, p)'
    BY <2>1, <2>2, Distinct DEF LoggedBy, UpdatesLeft, ResolvesLeft
  <2> QED  BY <1>1, <2>1, <2>3, TellsLog
<1>14. CASE Move(p, R1, <<>>)
  <2>1. todo[p] = R1 /\ todo'[p] = <<>> /\ finished' = Append(finished, Entry(p))
    BY <1>5, <1>14
  <2>2. copy[p].asked = "open" /\ ~copy[p].resolves
    BY <2>1, Distinct DEF Shaped, Shape, UpdatesLeft, ResolvesLeft
  <2>3. copy[p].report.status = "open"
    BY <1>2, <2>1, <2>2 DEF KeptBy, WouldSay, NoStatus
  <2>4. Write(p)
    BY <1>5, <1>7, <1>9, <1>10, <1>14, Distinct DEF Moves
  <2>5. files'[id].report.status = "open"
    <3>1. files[id] = Empty
      BY <1>2, <2>1 DEF KeptBy
    <3>2. files'[id] = Whole(copy[p].report)
      BY <1>1, <2>4, <3>1 DEF Write, TypeOK
    <3> QED  BY <2>3, <3>2 DEF Whole
  <2>6. Counts(id)' /\ LastLogged(id, "open")'
    BY <1>2, <1>4, <2>1, <2>2, CountsKeep, ResolvingKeeps DEF LoggedBy
  <2>7. LastLogged(id, files[id].report.status)'
    BY <2>5, <2>6 DEF LastLogged
  <2> QED  BY <1>1, <2>1, <2>6, <2>7, TellsLog
<1>15. ASSUME NEW from \in {U3, U2, S5, S4, S3}, NEW to \in {U2, U1, S4, S3, S2}, Move(p, from, to) PROVE LogTells(id)'
  <2>1. todo[p] = from /\ todo'[p] = to /\ todo'[p] # <<>> /\ finished' = finished
    BY <1>5, <1>15, Distinct
  <2>2. Counts(id)'
    BY <1>2, <1>4, <1>6, <2>1, CountsKeep DEF LoggedBy, UpdatesLeft, ResolvesLeft
  <2>3. LoggedBy(id, p)'
    BY <2>1, <2>2, Distinct DEF LoggedBy
  <2> QED  BY <1>1, <2>1, <2>3, TellsLog
<1> QED  BY <1>7, <1>8, <1>9, <1>10, <1>11, <1>12, <1>13, <1>14, <1>15 DEF Moves

\* Steps that write a line.
LEMMA LineLog ==
  ASSUME TypeOK, Shaped, Alone, FileStory, LogStory, [Next]_vars,
         NEW p \in Invocations, logToAudit(p),
         NEW id, copy[p].id = id, id \notin spoiled' \cup unlogged'
  PROVE  LogTells(id)'
<1>1. /\ id \in Identifiers /\ id \notin spoiled /\ Working(id) = {p}
      /\ todo'[p] = <<>> => Working(id)' = {}
      /\ todo'[p] # <<>> => Working(id)' = {p}
  BY OneAtWork DEF Step
<1>2. KeptBy(id, p) /\ LoggedBy(id, p)
  BY <1>1, SpoiledGrows DEF FileStory, FileTells, LogStory, LogTells
<1>3. PICK action \in Actions : Takes(p, action) /\ audit' = Append(audit, Line(p, action))
  BY LogTakes
<1>4. Moves(p, action)
  BY <1>3, TakesMoves
<1>5. \A from, to : Move(p, from, to) =>
        /\ todo[p] = from /\ todo'[p] = to /\ (to # <<>> => finished' = finished)
        /\ to = <<>> => finished' = Append(finished, Entry(p))
  BY DEF Move, TypeOK
<1>6. copy' = copy /\ files' = files
  BY DEF logToAudit
<1>7. LineAdded(id, p, action)
  BY <1>3, AuditMine, Zenon
<1>8. \A other : other # action => Logged(id, other)' = Logged(id, other)
  BY <1>7 DEF LineAdded
<1>9. PICK n : /\ Lines(id)' = Lines(id) \cup {n}
               /\ Logged(id, action)' = Logged(id, action) \cup {n} /\ n \notin Logged(id, action)
  BY <1>7 DEF LineAdded
<1>10. finished' = finished => Resolving(id)' = Resolving(id)
  BY DEF Resolving, Mine
<1>11. PICK s : s = copy[p].report.status
  OBVIOUS
<1>12. LastLogged(id, copy[p].report.status)' /\ LastLogged(id, s)'
  BY <1>6, <1>7, <1>11 DEF LastLogged, LineAdded
<1>13. CASE action = "incident_created" /\ Move(p, R4, R3)
  <2>1. todo[p] = R4 /\ todo'[p] = R3 /\ todo'[p] # <<>> /\ finished' = finished
    BY <1>5, <1>13, Distinct
  <2>2. Lines(id) = {} /\ Mine(id) = {} /\ s = "open"
    BY <1>2, <1>11, <2>1 DEF LoggedBy, KeptBy, NewReport
  <2>3. Logged(id, "incident_created") = {} /\ Logged(id, "incident_resolved") = {} /\ Resolving(id) = {}
    BY <2>2 DEF Logged, Resolving
  <2>4. /\ Logged(id, "incident_created")' = {n} /\ n \in Lines(id)'
        /\ Logged(id, "incident_resolved")' = {} /\ Resolving(id)' = {}
    BY <1>8, <1>9, <1>10, <1>13, <2>1, <2>3
  <2>5. Counts(id)'
    BY <2>4 DEF Counts
  <2>6. LastLogged(id, "open")'
    BY <1>12, <2>2
  <2>7. LoggedBy(id, p)'
    BY <2>1, <2>5, <2>6, Distinct DEF LoggedBy, UpdatesLeft, ResolvesLeft
  <2> QED  BY <1>1, <2>1, <2>7, TellsLog
<1>14. CASE action = "incident_updated" /\ Move(p, U1, <<>>)
  <2>1. todo[p] = U1 /\ todo'[p] = <<>> /\ finished' = Append(finished, Entry(p))
    BY <1>5, <1>14
  <2>2. ~copy[p].resolves
    BY <2>1, Distinct DEF Shaped, Shape, ReportsLeft, ResolvesLeft
  <2>3. Resolving(id)' = Resolving(id)
    BY <2>1, <2>2, ResolvingKeeps
  <2>4. Counts(id)
    BY <1>2, <2>1 DEF LoggedBy, UpdatesLeft
  <2>5. Counts(id)'
    BY <1>8, <1>9, <1>14, <2>3, <2>4, CountsKeep
  <2>6. files'[id].report.status = copy'[p].report.status
    BY <1>2, <1>6, <2>1 DEF KeptBy, Whole
  <2>7. LastLogged(id, files[id].report.status)'
    BY <1>12, <2>6 DEF LastLogged
  <2> QED  BY <1>1, <2>1, <2>5, <2>7, TellsLog
<1>15. CASE action = "incident_updated" /\ Move(p, S2, S1)
  <2>1. todo[p] = S2 /\ todo'[p] = S1 /\ todo'[p] # <<>> /\ finished' = finished
    BY <1>5, <1>15, Distinct
  <2>2. Counts(id)
    BY <1>2, <2>1 DEF LoggedBy, ResolvesLeft
  <2>3. Counts(id)'
    BY <1>8, <1>9, <1>10, <1>15, <2>1, <2>2, CountsKeep
  <2>4. LoggedBy(id, p)'
    BY <1>12, <2>1, <2>3, Distinct DEF LoggedBy
  <2> QED  BY <1>1, <2>1, <2>4, TellsLog
<1>16. CASE action = "incident_resolved" /\ Move(p, S1, <<>>)
  <2>1. todo[p] = S1 /\ todo'[p] = <<>> /\ finished' = Append(finished, Entry(p))
    BY <1>5, <1>16
  <2>2. copy[p].resolves
    BY <2>1, Distinct DEF Shaped, Shape, ReportsLeft, UpdatesLeft
  <2>3. PICK m : Resolving(id)' = Resolving(id) \cup {m} /\ m \notin Resolving(id)
    BY <2>1, <2>2, FinishedMine
  <2>4. Counts(id)
    BY <1>2, <2>1 DEF LoggedBy, ResolvesLeft
  <2>5. /\ Cardinality(Resolving(id)') = Cardinality(Resolving(id)) + 1
        /\ Cardinality(Logged(id, "incident_resolved")') = Cardinality(Logged(id, "incident_resolved")) + 1
    <3>1. IsFiniteSet(Resolving(id)) /\ IsFiniteSet(Logged(id, "incident_resolved"))
      BY FiniteEntries
    <3>2. Logged(id, "incident_resolved")' = Logged(id, "incident_resolved") \cup {n} /\ n \notin Logged(id, "incident_resolved")
      BY <1>9, <1>16
    <3> QED  BY <2>3, <3>1, <3>2, FS_AddElement
  <2>6. Logged(id, "incident_created")' = Logged(id, "incident_created") /\ Lines(id) \subseteq Lines(id)'
    BY <1>8, <1>9, <1>16
  <2>7. Counts(id)'
    BY <2>4, <2>5, <2>6 DEF Counts
  <2>8. files'[id].report.status = copy'[p].report.status
    BY <1>2, <1>6, <2>1 DEF KeptBy, Whole
  <2>9. LastLogged(id, files[id].report.status)'
    BY <1>12, <2>8 DEF LastLogged
  <2> QED  BY <1>1, <2>1, <2>7, <2>9, TellsLog
<1> QED  BY <1>4, <1>13, <1>14, <1>15, <1>16 DEF Moves, Actions

LEMMA BegunLog ==
  ASSUME TypeOK, FileStory, LogStory, [Next]_vars, NEW p \in Invocations, NEW id, NEW c,
         BeginsReport(p, id, c) \/ BeginsUpdate(p, id, c) \/ BeginsResolve(p, id, c),
         id \notin spoiled' \cup unlogged'
  PROVE  LogTells(id)'
<1>1. PICK steps : Begun(p, id, c, steps)
  BY DEF BeginsReport, BeginsUpdate, BeginsResolve
<1>2. /\ Others(p) /\ copy'[p] = c /\ c.id = id /\ todo[p] = <<>> /\ id \in Identifiers
      /\ UNCHANGED <<files, audit, finished>>
  <2>1. Others(p) /\ copy'[p] = c
    BY <1>1, ActsAlone, Zenon
  <2> QED  BY <1>1, <2>1 DEF Begun
<1>3. Working(id) = {} /\ id \notin spoiled \cup unlogged
  BY <1>1, SpoiledGrows DEF Begun
<1>4. Untouched(id) \/ (Counts(id) /\ LastLogged(id, files[id].report.status))
  BY <1>2, <1>3 DEF LogStory, LogTells
<1>5. Working(id)' \subseteq {p}
  <2>1. Working(id)' = (Working(id) \ {p}) \cup {q \in {p} : todo'[p] # <<>>}
    BY <1>2, WorkingAfter
  <2> QED  BY <1>3, <2>1
<1>6. SameEntries(id) /\ SameLines(id)
  BY <1>2 DEF SameEntries, SameLines, Mine, Lines
<1>7. /\ Lines(id)' = Lines(id) /\ Resolving(id)' = Resolving(id)
      /\ \A action : Logged(id, action)' = Logged(id, action)
  BY <1>6, LinesKeep, EntriesKeep DEF SameLines
<1>8. CASE BeginsReport(p, id, c)
  <2>1. todo'[p] = R6
    BY <1>8, ActsAlone DEF BeginsReport
  <2>2. LoggedBy(id, p)'
    BY <2>1, Distinct DEF LoggedBy, UpdatesLeft, ResolvesLeft
  <2>3. Working(id)' # {}
    BY <1>2, <2>1, Distinct DEF Working
  <2> QED  BY <1>5, <2>2, <2>3, TellsLog
<1>9. CASE BeginsUpdate(p, id, c) \/ BeginsResolve(p, id, c)
  <2>1. todo'[p] \in {U3, S5} /\ Loads(id)
    BY <1>9, ActsAlone DEF BeginsUpdate, BeginsResolve
  <2>2. Counts(id)
    BY <1>4, <2>1 DEF Untouched, Absent, Loads
  <2>3. Counts(id)'
    BY <1>7, <2>2, CountsKeep
  <2>4. LoggedBy(id, p)'
    BY <2>1, <2>3, Distinct DEF LoggedBy
  <2>5. Working(id)' # {}
    BY <1>2, <2>1, Distinct DEF Working
  <2> QED  BY <1>5, <2>4, <2>5, TellsLog
<1> QED  BY <1>8, <1>9

LEMMA LogStoryStep == TypeOK /\ Shaped /\ Alone /\ FileStory /\ LogStory /\ [Next]_vars => LogStory'
<1> SUFFICES ASSUME TypeOK, Shaped, Alone, FileStory, LogStory, [Next]_vars,
                    NEW id \in Identifiers, id \notin spoiled' \cup unlogged'
             PROVE  LogTells(id)'
  BY DEF LogStory, Identifiers
<1>1. id \notin spoiled \cup unlogged /\ LogTells(id)
  BY SpoiledGrows DEF LogStory
<1>2. CASE UNCHANGED <<files, audit, todo, copy, history>>
  BY <1>1, <1>2, StillApart, ApartKeeps
<1>3. ASSUME NEW p \in Invocations, NEW j, NEW c,
             BeginsReport(p, j, c) \/ BeginsUpdate(p, j, c) \/ BeginsResolve(p, j, c)
      PROVE  LogTells(id)'
  <2>1. CASE id # j
    <3>1. PICK steps : Begun(p, j, c, steps)
      BY <1>3 DEF BeginsReport, BeginsUpdate, BeginsResolve
    <3> QED  BY <1>1, <2>1, <3>1, BegunApart, ApartKeeps
  <2>2. CASE id = j
    BY <1>3, <2>2, BegunLog
  <2> QED  BY <2>1, <2>2
<1>4. ASSUME NEW p \in Invocations, Step(p) PROVE LogTells(id)'
  <2>1. CASE id # copy[p].id
    BY <1>1, <1>4, <2>1, StepApart, ApartKeeps
  <2>2. CASE id = copy[p].id
    <3>1. ~Stop(p)
      BY <1>4, <2>2, OneAtWork
    <3> QED  BY <1>4, <2>2, <3>1, QuietLog, LineLog DEF Step
  <2> QED  BY <2>1, <2>2
<1> QED  BY <1>2, <1>3, <1>4, NextCases

-------------------------------------------------------------------------------
(* The theorems *)

LEMMA StoryInit == Init => StoryInv
<1> SUFFICES ASSUME Init PROVE StoryInv
  OBVIOUS
<1>1. \A id : Working(id) = {}
  BY DEF Init, Working
<1>2. Shaped /\ Alone
  BY <1>1 DEF Init, Shaped, Shape, Alone
<1>3. FilesStand
  BY <1>1 DEF Init, FilesStand, FileStands, Absent, Filling
<1>4. \A id \in Identifiers : Untouched(id)
  BY DEF Init, Untouched, Mine, Lines
<1>5. FileStory /\ LogStory
  BY <1>1, <1>4 DEF FileStory, FileTells, LogStory, LogTells
<1> QED  BY <1>2, <1>3, <1>5, TypeInit DEF StoryInv

LEMMA StoryStep == StoryInv /\ [Next]_vars => StoryInv'
BY TypeStep, ShapedStep, FilesStandStep, AloneStep, FileStoryStep, LogStoryStep DEF StoryInv

LEMMA StoryAlways == Spec => []StoryInv
<1> QED  BY StoryInit, StoryStep, PTL DEF Spec

\* Every variable has its type, and an incident that is on disk is in the list
\* of "dsops leak list" unless its file is being filled, two invocations filled
\* it at once or one was stopped the last time it was, or it is resolved and
\* --all is not given (incident.go:107-120, 145-173, leak.go:195-205).
THEOREM IncidentsStayListed == Spec => []NoneIsHidden
<1>1. ASSUME StoryInv PROVE NoneIsMissing
  <2> SUFFICES ASSUME NEW id \in Identifiers, NEW all \in BOOLEAN,
                      files[id].state # "absent", id \notin NewLeakList(all, NoStatus)
               PROVE  \/ Filling(id) # {}
                      \/ id \in clashed
                      \/ ~all /\ Loads(id) /\ files[id].report.status = "resolved"
    BY DEF NoneIsMissing
  <2>1. CASE Loads(id)
    BY <2>1 DEF NewLeakList, ListReports
  <2>2. CASE ~Loads(id)
    BY <1>1, <2>2 DEF StoryInv, FilesStand, FileStands, Loads
  <2> QED  BY <2>1, <2>2
<1>2. StoryInv => NoneIsHidden
  BY <1>1 DEF NoneIsHidden, StoryInv
<1> QED  BY <1>2, StoryAlways, PTL

\* When nobody works on an incident any more, its report holds what every
\* invocation that returned has added, the status asked for last and whether it
\* was resolved: without a lock, read and write back lose nothing as long as
\* the invocations follow each other (leak.go:355-458, incident.go:176-219).
THEOREM SerialUpdatesAreKept == Spec => []SerialUpdatesKept
<1>1. ASSUME StoryInv PROVE SerialUpdatesKept
  <2> SUFFICES ASSUME NEW id \in Identifiers, Settled(id)
               PROVE  /\ files[id].report.by = Added(id)
                      /\ LastAsked(id, files[id].report.status)
                      /\ files[id].report.resolvedAt <=> Resolving(id) # {}
    BY DEF SerialUpdatesKept
  <2>1. Untouched(id) \/ Kept(id)
    BY <1>1 DEF StoryInv, FileStory, FileTells, Settled
  <2>2. Kept(id)
    BY <2>1 DEF Settled, Untouched, Absent
  <2> QED  BY <2>2 DEF Kept, Says
<1> QED  BY <1>1, StoryAlways, PTL

\* ... and the audit log, if all its lines could be written, ends with the
\* status in the file, has one line for the creation and one for each
\* resolution (incident.go:222-258).
THEOREM TheLogAgrees == Spec => []LogAgrees
<1>1. ASSUME StoryInv PROVE LogAgrees
  <2> SUFFICES ASSUME NEW id \in Identifiers, Settled(id), id \notin unlogged
               PROVE  /\ LastLogged(id, files[id].report.status)
                      /\ Cardinality(Logged(id, "incident_created")) = 1
                      /\ Cardinality(Logged(id, "incident_resolved")) = Cardinality(Resolving(id))
    BY DEF LogAgrees
  <2>1. Untouched(id) \/ (Counts(id) /\ LastLogged(id, files[id].report.status))
    BY <1>1 DEF StoryInv, LogStory, LogTells, Settled
  <2>2. Counts(id) /\ LastLogged(id, files[id].report.status)
    BY <2>1 DEF Settled, Untouched, Absent
  <2>3. PICK i : Logged(id, "incident_created") = {i}
    BY <2>2 DEF Counts
  <2>4. Cardinality(Logged(id, "incident_created")) = 1
    BY <2>3, FS_Singleton
  <2> QED  BY <2>2, <2>4 DEF Counts
<1> QED  BY <1>1, StoryAlways, PTL
===============================================================================
