-------------------------- MODULE DumpJobsHistory --------------------------
(***************************************************************************)
(* DumpJobs with a history variable, which no action reads, for the two    *)
(* properties that relate the answer of a request to all the states the    *)
(* system went through while the request was served.                       *)
(***************************************************************************)
EXTENDS DumpJobs

VARIABLE
  lasting \* lasting[c]: jobs that were there all along the request of c

histVars == <<vars, lasting>>

\* The jobs a complete listing would contain.
Existing == Listed(Merge(sched, kv))

\* The jobs whose archive an administrator can count on.
Archived == {j \in files : kv[j] = "success"}

HistInit ==
  /\ Init
  /\ lasting = [c \in Callers |-> {}]

\* What is left of S, if the request of caller c goes on.
Still(c, S) == IF call'[c].op = call[c].op THEN lasting[c] \cap S' ELSE S

Observe ==
  lasting' = [c \in Callers |->
    CASE call'[c].op = "list" -> Still(c, Existing)
      [] call'[c].op \in {"download", "support"} -> Still(c, Archived)
      [] OTHER -> {}]

HistNext == Next /\ Observe

HistSpec == HistInit /\ [][HistNext]_histVars

\* GetAllJobs takes no snapshot: it reads the scheduler's entries and then,
\* later, the stored records.  A job that exists from the beginning to the
\* end of the listing is in it all the same, whatever the job does in
\* between, because its record is written before its entry is removed
\* (job.go:104, 141).
ListingComplete ==
  \A c \in Callers :
    call[c].pc = "done" /\ call[c].op = "list" /\ call[c].reply = "ok"
      => lasting[c] \subseteq Listed(call[c].listing)

\* A dump is not refused without a reason (api.go:147, support_packet.go:33):
\* while an archive with its record is there from the beginning to the end of
\* a download, the download gets it, and no support packet is refused for
\* want of a dump, although the record and the archive are read one after the
\* other while jobs finish and are deleted.
ArchiveServed ==
  \A c \in Callers :
    /\ call[c].reply = "missing" /\ call[c].op = "support" => lasting[c] = {}
    /\ call[c].reply \in {"missing", "unreadable"} => call[c].target \notin lasting[c]

=============================================================================
