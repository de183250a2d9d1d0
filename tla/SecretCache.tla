---------------------------- MODULE SecretCache ----------------------------
(***************************************************************************)
(* secrets/secrets.go and secrets/ocivault.go: the ttlCache that both      *)
(* remote providers read through, for one reference (entries of different  *)
(* references share nothing).  Readers that miss ask the store             *)
(* concurrently and without regard to each other; each puts what it was    *)
(* told, whenever the answer reaches it.  The secret is rotated, deleted   *)
(* and restored meanwhile.                                                 *)
(*                                                                         *)
(* Contents of the secret are numbered in the order the store had them.    *)
(* Time is kept as what is left of the entry's life and as how long ago a  *)
(* content was replaced.                                                   *)
(***************************************************************************)
EXTENDS Naturals

CONSTANTS
  Readers,
  SecretTTL,    \* ttlCache.ttl
  Latency,      \* the longest a request to the store takes: a bound on the environment
  MaxContents,  \* bound on the contents the secret ever has
  Empty         \* those of them that are no secret: deleted, or an empty value

ASSUME SecretTTLAssumption == SecretTTL \in Nat /\ Latency \in Nat
ASSUME ContentsAssumption == MaxContents \in Nat \ {0} /\ Empty \subseteq Nat

VARIABLES
  content,   \* what the store holds
  replaced,  \* replaced[c]: ticks since the store stopped holding c
  entry,     \* the cache entry: its value and the ticks until expiresAt
  reader,    \* reader[r]: idle, asking or told
  told,      \* told[r]: the store's answer to r, on its way
  waiting    \* ticks since r asked

secretVars == <<content, replaced, entry, reader, told, waiting>>

Contents == 1 .. MaxContents

SecretInit == /\ content = 1
              /\ replaced = [c \in Contents |-> 0]
              /\ entry = [value |-> 0, left |-> 0]
              /\ reader = [r \in Readers |-> "idle"]
              /\ told = [r \in Readers |-> 0]
              /\ waiting = [r \in Readers |-> 0]

(* Mutant: a hit prolongs the entry.                                       *)
AfterHitRenewed == [entry EXCEPT !.left = SecretTTL]
AfterHit == entry

Valid == entry.left > 0

Rotate == /\ content < MaxContents
          /\ content' = content + 1
          /\ UNCHANGED <<replaced, entry, reader, told, waiting>>

(* get: a valid entry is the answer.                                       *)
Hit(r) == /\ reader[r] = "idle" /\ Valid
          /\ entry' = AfterHit
          /\ UNCHANGED <<content, replaced, reader, told, waiting>>

Miss(r) == /\ reader[r] = "idle" /\ ~Valid
           /\ reader' = [reader EXCEPT ![r] = "asking"]
           /\ waiting' = [waiting EXCEPT ![r] = 0]
           /\ UNCHANGED <<content, replaced, entry, told>>

(* The store answers with what it holds at this moment.                    *)
StoreAnswers(r) == /\ reader[r] = "asking"
                   /\ told' = [told EXCEPT ![r] = content]
                   /\ reader' = [reader EXCEPT ![r] = "told"]
                   /\ UNCHANGED <<content, replaced, entry, waiting>>

Forget(r) == /\ reader' = [reader EXCEPT ![r] = "idle"]
             /\ told' = [told EXCEPT ![r] = 0]
             /\ waiting' = [waiting EXCEPT ![r] = 0]

(* The answer has a value, and it decodes.                                 *)
Usable(c) == c \notin Empty
Stored(c) == [value |-> c, left |-> SecretTTL]

(* put, and the value is returned.  Another reader may have put a younger  *)
(* value meanwhile.                                                        *)
Put(r) == /\ reader[r] = "told" /\ Usable(told[r])
          /\ entry' = Stored(told[r])
          /\ Forget(r)
          /\ UNCHANGED <<content, replaced>>

(* ErrNotFound or another error; an entry that is there stays.             *)
NotFound(r) == /\ reader[r] = "told" /\ ~Usable(told[r])
               /\ Forget(r)
               /\ UNCHANGED <<content, replaced, entry>>

AskFails(r) == /\ reader[r] \in {"asking", "told"}
               /\ Forget(r)
               /\ UNCHANGED <<content, replaced, entry>>

AgeLimit == SecretTTL + Latency

SecretTick ==
  /\ \A r \in Readers : reader[r] = "idle" \/ waiting[r] < Latency
  /\ replaced' = [c \in Contents |-> IF c < content /\ replaced[c] < AgeLimit
                                     THEN replaced[c] + 1 ELSE replaced[c]]
  /\ entry' = [entry EXCEPT !.left = IF @ > 0 THEN @ - 1 ELSE 0]
  /\ waiting' = [r \in Readers |-> IF reader[r] = "idle" THEN 0 ELSE waiting[r] + 1]
  /\ UNCHANGED <<content, reader, told>>

Get(r) == Hit(r) \/ Miss(r) \/ StoreAnswers(r) \/ Put(r) \/ NotFound(r) \/ AskFails(r)

SecretNext == Rotate \/ SecretTick \/ \E r \in Readers : Get(r)

SecretSpec == SecretInit /\ [][SecretNext]_secretVars

-----------------------------------------------------------------------------
(* Properties.                                                             *)

(* Types.                                                                  *)
SecretTypeOK == /\ content \in Contents
                /\ replaced \in [Contents -> 0 .. AgeLimit]
                /\ entry \in [value : 0 .. MaxContents, left : 0 .. SecretTTL]
                /\ reader \in [Readers -> {"idle", "asking", "told"}]
                /\ told \in [Readers -> 0 .. MaxContents]
                /\ waiting \in [Readers -> 0 .. Latency]

(* "a rotation is picked up without a restart": what a hit serves was the  *)
(* store's secret less than ttl and one request to the store ago, although *)
(* a slow reader may put back what a quick one had replaced, and a deleted *)
(* secret or a failing store never makes an entry live longer.             *)
BoundedStaleness ==
  Valid => /\ entry.value \in Contents \ Empty
           /\ entry.value = content \/ replaced[entry.value] < SecretTTL + Latency
=============================================================================
