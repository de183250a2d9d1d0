------------------------------ MODULE AuditLog ------------------------------
(***************************************************************************)
(* What audit/ promises, whatever locks, rollbacks and retries implement   *)
(* it: a log that only grows, at its end, by all the events of one         *)
(* mutation at a time.  Entries are numbered, with gaps; `head' is the     *)
(* digest of the last.                                                     *)
(***************************************************************************)
EXTENDS Naturals, FiniteSets

CONSTANTS Writers, Appends

VARIABLES log, head

logVars == <<log, head>>

LogInit == log = <<>> /\ head = <<>>

(* What is in the log stays there, as it was.                              *)
KeepsEntries == /\ DOMAIN log \subseteq DOMAIN log'
                /\ \A s \in DOMAIN log : log'[s] = log[s]

(* The entry s of the log is the successor of q among the new ones.        *)
Succeeds(new, s, q) == q < s /\ \A r \in new : r <= q \/ s <= r

(* New entries are linked one to the next and the first to the head, which *)
(* moves to the last.                                                      *)
LinksEntries(new) ==
  /\ \A s \in new : \/ (\A q \in new : s <= q) /\ log'[s].prev = head
                    \/ \E q \in new : Succeeds(new, s, q) /\ log'[s].prev = log'[q].hash
  /\ \E s \in new : (\A q \in new : q <= s) /\ head' = log'[s].hash

(* The mutation of w commits, with its events.                             *)
Record(w) ==
  LET new == DOMAIN log' \ DOMAIN log IN
  /\ KeepsEntries
  /\ \A q \in DOMAIN log, s \in new : q < s
  /\ Cardinality(new) = Appends[w] /\ \A s \in new : log'[s].by = w
  /\ LinksEntries(new)

LogNext == \E w \in Writers : Record(w)

LogSpec == LogInit /\ [][LogNext]_logVars
=============================================================================
