----------------------------- MODULE SessionChains -----------------------------
(***************************************************************************)
(* What refresh-token rotation promises, without requests, locks or        *)
(* transactions.  A session is a chain of tokens: it is opened by a login, *)
(* grows by rotation, and loses live tokens when it is closed.  A token    *)
(* that is no longer live never comes back.                                *)
(***************************************************************************)
CONSTANTS Tokens, NoToken,
          Serial   \* TRUE: only a live token can be rotated

VARIABLES known,   \* tokens ever issued
          live,    \* tokens that can still be exchanged
          chain    \* the chain of a token, named by its first token

chainVars == <<known, live, chain>>

ChainTypeOK ==
  /\ known \subseteq Tokens /\ live \subseteq known
  /\ chain \in [Tokens -> Tokens \cup {NoToken}]
  /\ \A t \in known : chain[t] \in known

ChainInit ==
  /\ known = {} /\ live = {}
  /\ chain = [t \in Tokens |-> NoToken]

Open(t) ==
  /\ t \in Tokens \ known
  /\ known' = known \cup {t}
  /\ live' = live \cup {t}
  /\ chain' = [chain EXCEPT ![t] = t]

Rotate(old, t) ==
  /\ old \in known /\ t \in Tokens \ known
  /\ Serial => old \in live
  /\ known' = known \cup {t}
  /\ live' = (live \ {old}) \cup {t}
  /\ chain' = [chain EXCEPT ![t] = chain[old]]

Close(S) ==
  /\ S # {} /\ S \subseteq live
  /\ live' = live \ S
  /\ UNCHANGED <<known, chain>>

ChainNext ==
  \/ \E t \in Tokens : Open(t)
  \/ \E old, t \in Tokens : Rotate(old, t)
  \/ \E S \in SUBSET live : Close(S)

ChainSpec == ChainInit /\ [][ChainNext]_chainVars

\* A serial chain has one end: at most one of its tokens is live.
OneLivePerChain ==
  \A t1, t2 \in live : chain[t1] = chain[t2] => t1 = t2

\* A chain is serial when only its live end is rotated; then types and the
\* single end are inductive together.
ChainInv == ChainTypeOK /\ OneLivePerChain
================================================================================
