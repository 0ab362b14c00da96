---------------------------------- MODULE Incidents ----------------------------------
(***************************************************************************)
(* Incident records: the reports under .dsops/incidents, one file each, and   *)
(* the audit log next to them, as the invocations of "dsops leak" report,     *)
(* update and resolve them.  Nothing locks the files: an invocation reads a    *)
(* report, changes its copy, perhaps waits for somebody to type, and writes   *)
(* the whole of it back, by truncating the file and filling it again.         *)
(*                                                                           *)
(* A report keeps its status, whether it has a time of resolution, and the    *)
(* invocations whose additions (actions, files, notes) it holds.  Messages    *)
(* are left out: no leak command loads the configuration that                 *)
(* sendIncidentNotifications asks for, so that it never gets to send one.     *)
(***************************************************************************)
EXTENDS Naturals, Sequences, FiniteSets

CONSTANTS Invocations, MaxTime

ASSUME IncidentsAssumption == MaxTime \in Nat

VARIABLES now,       \* seconds
          files,     \* what is on disk, by the identifier of the incident
          audit,     \* the lines of audit.log
          todo,      \* the steps an invocation has still to take
          copy,      \* the incident it holds a copy of, and the copy
          finished,  \* history: the invocations that returned without an error, in order
          spoiled,   \* history: incidents whose invocations overlapped or did not finish,
                     \* or that were created twice
          clashed,   \* history: incidents whose file two invocations were filling at once, or
                     \* one that was stopped, the last time it was emptied
          unlogged   \* history: incidents a line of whose log could not be written

history == <<finished, spoiled, clashed, unlogged>>
vars == <<now, files, audit, todo, copy, history>>

(* CreateReport names an incident by the date and the second: two made in one *)
(* second have one name. *)
Identifiers == 0 .. MaxTime
generateIncidentID == now

(* A status flag that is not given: the empty string in the code. *)
NoStatus == "none"
Asked == {NoStatus, "open", "investigating", "resolved"}

NewReport == [status |-> "open", resolvedAt |-> FALSE, by |-> {}]
Absent == [state |-> "absent", report |-> NewReport]
Empty == [state |-> "empty", report |-> NewReport]
Torn == [state |-> "torn", report |-> NewReport]
Whole(report) == [state |-> "whole", report |-> report]
NoCopy == [id |-> 0, asked |-> NoStatus, resolves |-> FALSE, report |-> NewReport]

Init ==
  /\ now = 0 /\ files = [id \in Identifiers |-> Absent] /\ audit = <<>>
  /\ todo = [p \in Invocations |-> <<>>] /\ copy = [p \in Invocations |-> NoCopy]
  /\ finished = <<>> /\ spoiled = {} /\ clashed = {} /\ unlogged = {}

Working(id) == {p \in Invocations : todo[p] # <<>> /\ copy[p].id = id}
Filling(id) == {p \in Working(id) : Head(todo[p]) = "write"}
Used(p) == copy[p] # NoCopy

(***************************************************************************)
(* What an invocation does, step by step.                                    *)
(***************************************************************************)
SaveReport == <<"truncate", "write">>
UpdateReport == SaveReport \o <<"incident_updated">>
CreateReport == SaveReport \o <<"incident_created">>
(* Mutant: the resolution is not logged as one. *)
ResolveReportQuietly == UpdateReport
ResolveReport == UpdateReport \o <<"incident_resolved">>

Begins(p, id, report, asked, resolves, steps) ==
  /\ todo[p] = <<>> /\ ~Used(p)
  /\ todo' = [todo EXCEPT ![p] = steps]
  /\ copy' = [copy EXCEPT ![p] = [id |-> id, asked |-> asked, resolves |-> resolves, report |-> report]]
  /\ spoiled' = IF Working(id) # {} THEN spoiled \cup {id} ELSE spoiled
  /\ UNCHANGED <<now, files, audit, finished, clashed, unlogged>>

(* Mutant: what the report is about is not saved after the report is made. *)
ReportUnsaved == CreateReport \o <<"add">>
(* The report is made and logged; what it is about is added and saved next.  *)
(* Flags say what, or answers to questions that are asked before. *)
interactiveIncidentReport == CreateReport \o <<"add">> \o SaveReport

NewLeakReport(p) == Begins(p, generateIncidentID, NewReport, "open", FALSE, interactiveIncidentReport)

(* A report that is absent or does not parse is not loaded. *)
Loads(id) == files[id].state = "whole"

isValidStatus(status) == status \in {"open", "investigating", "resolved"}

(* The time of resolution is left as it is, whatever the status. *)
NewLeakUpdate(p) ==
  \E id \in Identifiers, status \in Asked :
    /\ Loads(id) /\ (status # NoStatus => isValidStatus(status))
    /\ LET report == files[id].report
       IN Begins(p, id, [report EXCEPT !.by = @ \cup {p}, !.status = IF status = NoStatus THEN @ ELSE status],
                 status, FALSE, UpdateReport)

(* The notes may be typed long after the report was read. *)
NewLeakResolve(p) ==
  \E id \in Identifiers :
    /\ Loads(id) /\ files[id].report.status # "resolved"
    /\ Begins(p, id, files[id].report, "resolved", TRUE, <<"notes">> \o ResolveReport)

(***************************************************************************)
(* The steps.                                                                *)
(***************************************************************************)
Entry(p) == [id |-> copy[p].id, asked |-> copy[p].asked, resolves |-> copy[p].resolves, by |-> p]

(* The next step of p is taken; with its last one the invocation has done all. *)
Takes(p, step) ==
  /\ todo[p] # <<>> /\ Head(todo[p]) = step
  /\ todo' = [todo EXCEPT ![p] = Tail(@)]
  /\ finished' = IF Len(todo[p]) = 1 THEN Append(finished, Entry(p)) ELSE finished

Add(p) ==
  /\ Takes(p, "add")
  /\ copy' = [copy EXCEPT ![p].report.by = @ \cup {p}]
  /\ UNCHANGED <<now, files, audit, spoiled, clashed, unlogged>>

Notes(p) ==
  /\ Takes(p, "notes")
  /\ copy' = [copy EXCEPT ![p].report = [status |-> "resolved", resolvedAt |-> TRUE, by |-> @.by \cup {p}]]
  /\ UNCHANGED <<now, files, audit, spoiled, clashed, unlogged>>

(* os.WriteFile empties the file when it opens it.  A report that is made    *)
(* overwrites one made in the same second. *)
Truncate(p) ==
  LET id == copy[p].id
  IN /\ Takes(p, "truncate")
     /\ files' = [files EXCEPT ![id] = Empty]
     /\ spoiled' = IF copy[p].report = NewReport /\ files[id] # Absent THEN spoiled \cup {id} ELSE spoiled
     /\ clashed' = IF Filling(id) = {} THEN clashed \ {id} ELSE clashed \cup {id}
     /\ UNCHANGED <<now, audit, copy, unlogged>>

(* It writes from the start of the file.  What another invocation wrote since *)
(* it was emptied stays behind what is written, if that was longer, and then  *)
(* the file does not parse. *)
Write(p) ==
  LET id == copy[p].id
  IN /\ Takes(p, "write")
     /\ \E file \in {Whole(copy[p].report)} \cup (IF files[id] = Empty THEN {} ELSE {Torn}) :
          files' = [files EXCEPT ![id] = file]
     /\ UNCHANGED <<now, audit, copy, spoiled, clashed, unlogged>>

Actions == {"incident_created", "incident_updated", "incident_resolved"}

(* A line is appended in one write.  If it cannot be, the invocation goes on. *)
logToAudit(p) ==
  LET id == copy[p].id
  IN /\ \E action \in Actions :
          /\ Takes(p, action)
          /\ \/ /\ audit' = Append(audit, [id |-> id, action |-> action, status |-> copy[p].report.status])
                /\ UNCHANGED unlogged
             \/ UNCHANGED audit /\ unlogged' = unlogged \cup {id}
     /\ UNCHANGED <<now, files, copy, spoiled, clashed>>

(* A file cannot be written, or the process is killed: what the invocation   *)
(* has still to do is not done.  A report may be written in part. *)
Stop(p) ==
  LET id == copy[p].id
      filling == p \in Filling(id)
  IN /\ todo[p] # <<>>
     /\ todo' = [todo EXCEPT ![p] = <<>>]
     /\ \E file \in {files[id]} \cup (IF filling THEN {Torn} ELSE {}) : files' = [files EXCEPT ![id] = file]
     /\ spoiled' = spoiled \cup {id}
     /\ clashed' = IF filling THEN clashed \cup {id} ELSE clashed
     /\ UNCHANGED <<now, audit, copy, finished, unlogged>>

Tick == now < MaxTime /\ now' = now + 1 /\ UNCHANGED <<files, audit, todo, copy, history>>

Next ==
  \/ Tick
  \/ \E p \in Invocations :
       \/ NewLeakReport(p) \/ NewLeakUpdate(p) \/ NewLeakResolve(p)
       \/ Add(p) \/ Notes(p) \/ Truncate(p) \/ Write(p) \/ logToAudit(p) \/ Stop(p)

Spec == Init /\ [][Next]_vars

(***************************************************************************)
(* What "dsops leak list" shows: the reports that can be read; the resolved  *)
(* ones only with --all, whatever status is asked for.                       *)
(***************************************************************************)
(* Mutant: what is resolved is left out before the flags are looked at. *)
ListOpenReports == {id \in Identifiers : Loads(id) /\ files[id].report.status # "resolved"}
ListReports == {id \in Identifiers : Loads(id)}

NewLeakList(all, status) ==
  {id \in ListReports : /\ all \/ files[id].report.status # "resolved"
                        /\ status \in {NoStatus, files[id].report.status}}

(***************************************************************************)
(* Properties.                                                               *)
(***************************************************************************)

Reports == [status : {"open", "investigating", "resolved"}, resolvedAt : BOOLEAN, by : SUBSET Invocations]
Files == [state : {"absent", "empty", "torn", "whole"}, report : Reports]
Copies == [id : Identifiers, asked : Asked, resolves : BOOLEAN, report : Reports]
Entries == [id : Identifiers, asked : Asked, resolves : BOOLEAN, by : Invocations]
LogLines == [id : Identifiers, action : Actions, status : {"open", "investigating", "resolved"}]

Steps == Actions \cup {"truncate", "write", "add", "notes"}

(* Every variable has its type. *)
TypeOK ==
  /\ now \in 0 .. MaxTime
  /\ files \in [Identifiers -> Files]
  /\ audit \in Seq(LogLines)
  /\ todo \in [Invocations -> Seq(Steps)]
  /\ copy \in [Invocations -> Copies]
  /\ finished \in Seq(Entries)
  /\ spoiled \subseteq Identifiers /\ clashed \subseteq Identifiers /\ unlogged \subseteq Identifiers

(* An incident on disk is missing from the list in three cases only: its     *)
(* file is being filled; the last time it was filled two invocations did so   *)
(* at once, or one was stopped, and ListReports skips what it cannot parse;   *)
(* or it is resolved and --all is not given, although the help of "leak list" *)
(* says that all incidents are shown (leak.go:24,31). *)
NoneIsMissing ==
  \A id \in Identifiers, all \in BOOLEAN :
    files[id].state # "absent" /\ id \notin NewLeakList(all, NoStatus) =>
      \/ Filling(id) # {}
      \/ id \in clashed
      \/ ~all /\ Loads(id) /\ files[id].report.status = "resolved"

(* The types, and no incident hidden (incident.go:145-185).                  *)
NoneIsHidden == TypeOK /\ NoneIsMissing

Settled(id) == files[id].state # "absent" /\ Working(id) = {} /\ id \notin spoiled

(* The invocations that finished their work on an incident: where they are   *)
(* in the history, what they added, and the status that was asked for last.  *)
Mine(id) == {i \in DOMAIN finished : finished[i].id = id}
Added(id) == {finished[i].by : i \in Mine(id)}
Resolving(id) == {i \in Mine(id) : finished[i].resolves}
LastAsked(id, status) ==
  \E i \in Mine(id) :
    /\ finished[i].asked = status /\ status # NoStatus
    /\ \A j \in Mine(id) : j > i => finished[j].asked = NoStatus

(* Invocations that do not overlap, finish, and do not make two incidents in *)
(* one second, lose nothing of each other: the file holds what each added,   *)
(* the status asked for last, and a time of resolution once resolved.        *)
SerialUpdatesKept ==
  \A id \in Identifiers :
    Settled(id) =>
      /\ files[id].report.by = Added(id)
      /\ LastAsked(id, files[id].report.status)
      /\ files[id].report.resolvedAt <=> Resolving(id) # {}

(* The lines of the log about an incident. *)
Lines(id) == {i \in DOMAIN audit : audit[i].id = id}
Logged(id, action) == {i \in Lines(id) : audit[i].action = action}
LastLogged(id, status) ==
  \E i \in Lines(id) : audit[i].status = status /\ \A j \in Lines(id) : j <= i

(* The log and the files agree: if all its lines could be written, the last  *)
(* line about an incident has the status its file has, it was created once,  *)
(* and it was resolved as often as "leak resolve" said so. *)
LogAgrees ==
  \A id \in Identifiers :
    Settled(id) /\ id \notin unlogged =>
      /\ LastLogged(id, files[id].report.status)
      /\ Cardinality(Logged(id, "incident_created")) = 1
      /\ Cardinality(Logged(id, "incident_resolved")) = Cardinality(Resolving(id))
=====================================================================================
