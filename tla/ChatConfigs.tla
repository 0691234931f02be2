----------------------------- MODULE ChatConfigs -----------------------------
(***************************************************************************)
(* What the configuration store promises: the settings of every chat, which *)
(* change by one command at a time and survive restarts.                    *)
(***************************************************************************)
EXTENDS Integers, SequencesExt

CONSTANTS
    Chats,    \* marked chat ids
    Minutes,  \* TTLs the operator may set, in minutes
    Patterns  \* instant-delete patterns the operator may add

VARIABLE conf

Config == [ttl : Minutes \cup {0}, pats : Seq(Patterns)]

NoConfig == [ttl |-> 0, pats |-> <<>>]

\* The commands, as functions of a chat's configuration.  An index that is not
\* (or no longer) in the list removes nothing.
WithTTL(cfg, n)     == [cfg EXCEPT !.ttl = n]
WithPattern(cfg, p) == [cfg EXCEPT !.pats = Append(@, p)]
WithoutAt(cfg, i)   == IF i \in 1..Len(cfg.pats) THEN [cfg EXCEPT !.pats = RemoveAt(@, i)] ELSE cfg

Change(c, cfg) == conf' = [conf EXCEPT ![c] = cfg]

SetTTL(c)        == \E n \in Minutes \cup {0} : Change(c, WithTTL(conf[c], n))
AddPattern(c)    == \E p \in Patterns : Change(c, WithPattern(conf[c], p))
RemovePattern(c) == \E i \in 1..Len(conf[c].pats) : Change(c, WithoutAt(conf[c], i))
Disable(c)       == Change(c, NoConfig)

Init == conf = [c \in Chats |-> NoConfig]

Next == \E c \in Chats : SetTTL(c) \/ AddPattern(c) \/ RemovePattern(c) \/ Disable(c)

Spec == Init /\ [][Next]_conf

=============================================================================
