------------------------------ MODULE Retention ------------------------------
(***************************************************************************)
(* What the cleaner promises the account.  A message disappears by the      *)
(* program's hand only after the program has doomed it, and it is doomed    *)
(* either when it is first seen, by a pattern its chat has at that moment,  *)
(* or when it has outlived a TTL that applies at that moment: the one that  *)
(* is set, or one that was set when a drain began that is still going on.   *)
(* Whatever is doomed may be spared again, by a failure or a restart.       *)
(***************************************************************************)
EXTENDS Integers

CONSTANTS
    Chats,    \* marked chat ids of the groups the account is in
    Ids,      \* message ids
    History,  \* <<chat, id>> pairs sent before the program first runs
    Cmds,     \* ids of the messages whose text matches a pattern
    Service,  \* ids of service messages
    TTLs      \* positive TTLs the operator may set

VARIABLES
    now,     \* the clock, in TTL units
    own,     \* the account's messages that exist in each chat
    sent,    \* send time of each message, or Unsent
    unseen,  \* messages the program has not been told of yet
    ttl,     \* TTL of each chat, 0 when off
    pat,     \* chats with instant-delete patterns
    rule,    \* TTLs that drains apply in each chat
    doomed   \* messages the program has decided to delete in each chat

account  == <<now, own, sent, unseen>>
settings == <<ttl, pat>>
decided  == <<rule, doomed>>
vars     == <<account, settings, decided>>

Unsent == -1

Decisions == [Chats -> SUBSET Ids]

-----------------------------------------------------------------------------
(* The account and its owner *)

Tick ==
    /\ now' = now + 1
    /\ UNCHANGED <<own, sent, unseen, settings, decided>>

Send(c, m) ==
    /\ sent[c][m] = Unsent
    /\ own' = [own EXCEPT ![c] = @ \cup {m}]
    /\ sent' = [sent EXCEPT ![c][m] = now]
    /\ unseen' = [unseen EXCEPT ![c] = @ \cup {m}]
    /\ UNCHANGED <<now, settings, decided>>

Vanish(c, m) ==
    /\ m \in own[c]
    /\ own' = [own EXCEPT ![c] = @ \ {m}]
    /\ UNCHANGED <<now, sent, unseen, settings, decided>>

SetTTL(c, n) == ttl' = [ttl EXCEPT ![c] = n] /\ UNCHANGED <<account, pat, decided>>

AddPattern(c)    == pat' = pat \cup {c} /\ UNCHANGED <<account, ttl, decided>>
RemovePattern(c) == pat' = pat \ {c} /\ UNCHANGED <<account, ttl, decided>>

Disable(c) ==
    /\ ttl' = [ttl EXCEPT ![c] = 0]
    /\ pat' = pat \ {c}
    /\ UNCHANGED <<account, decided>>

-----------------------------------------------------------------------------
(* The program *)

Matches(c, m) == c \in pat /\ m \in Cmds \ Service

\* A new message is looked at once, and doomed if it matches then.
See(c, m) ==
    /\ m \in unseen[c]
    /\ unseen' = [unseen EXCEPT ![c] = @ \ {m}]
    /\ doomed' = IF Matches(c, m) THEN [doomed EXCEPT ![c] = @ \cup {m}] ELSE doomed
    /\ UNCHANGED <<now, own, sent, settings, rule>>

InForce(c) == (rule[c] \cup {ttl[c]}) \ {0}

Expired(c, m) == sent[c][m] # Unsent /\ \E u \in InForce(c) : now - sent[c][m] >= u

\* Messages are doomed by age or spared, drains begin under the TTL that is set or
\* end.
Judge ==
    /\ doomed' \in Decisions
    /\ \A c \in Chats : \A m \in doomed'[c] \ doomed[c] : Expired(c, m)
    /\ rule' \in [Chats -> SUBSET TTLs]
    /\ \A c \in Chats : rule'[c] \subseteq InForce(c)
    /\ UNCHANGED <<account, settings>>

\* Doomed messages of one chat are deleted at a time.
Delete(c, S) ==
    /\ S # {}
    /\ S \subseteq doomed[c] \cap own[c]
    /\ own' = [own EXCEPT ![c] = @ \ S]
    /\ doomed' \in Decisions
    /\ \A d \in Chats : doomed'[d] \subseteq doomed[d]
    /\ UNCHANGED <<now, sent, unseen, settings, rule>>

-----------------------------------------------------------------------------
(* The promise *)

Init ==
    /\ now = 0
    /\ own = [c \in Chats |-> {m \in Ids : <<c, m>> \in History}]
    /\ sent = [c \in Chats |-> [m \in Ids |-> IF <<c, m>> \in History THEN 0 ELSE Unsent]]
    /\ unseen = [c \in Chats |-> {}]
    /\ ttl = [c \in Chats |-> 0]
    /\ pat = {}
    /\ rule = [c \in Chats |-> {}]
    /\ doomed = [c \in Chats |-> {}]

Next ==
    \/ Judge
    \/ Tick
    \/ \E c \in Chats :
          \/ AddPattern(c)
          \/ RemovePattern(c)
          \/ Disable(c)
          \/ \E n \in TTLs \cup {0} : SetTTL(c, n)
          \/ \E m \in Ids : Send(c, m) \/ Vanish(c, m) \/ See(c, m)
          \/ \E S \in SUBSET Ids : Delete(c, S)

Spec == Init /\ [][Next]_vars

=============================================================================
