--------------------------- MODULE ObjectMailbox ---------------------------
(***************************************************************************)
(* What the point-to-point calls promise a Ruby program: objects travel    *)
(* whole.  A call may post one letter and may take one letter; each letter *)
(* is taken once, by its addressee, in the order its sender posted those   *)
(* of one tag; a call that took a letter returns its object or raises.     *)
(* Sizes, dumps and the two messages do not exist at this level.           *)
(***************************************************************************)
EXTENDS Integers

CONSTANTS Proc, None, Sent, Raised

VARIABLES mail,     \* letters posted and not taken
          calls,    \* calls[p]: calls p has made, the number of its letter
          busy,     \* busy[p]: p is in a call
          hand,     \* hand[p]: the letter the call has taken, or None
          result    \* result[p]: what p's last call returned

mailVars == <<mail, calls, busy, hand, result>>

MailInit ==
  /\ mail = {}
  /\ calls = [p \in Proc |-> 0]
  /\ busy = [p \in Proc |-> FALSE]
  /\ hand = [p \in Proc |-> None]
  /\ result = [p \in Proc |-> None]

\* p enters a call, which posts one letter or none.
Call(p) ==
  /\ ~busy[p]
  /\ mail \subseteq mail'
  /\ \A l \in mail' \ mail : l.src = p /\ l.n = calls[p]
  /\ \A k, l \in mail' \ mail : k = l
  /\ calls' = [calls EXCEPT ![p] = @ + 1]
  /\ busy' = [busy EXCEPT ![p] = TRUE]
  /\ UNCHANGED <<hand, result>>

SameRoute(k, l) == k.src = l.src /\ k.dst = l.dst /\ k.tag = l.tag

\* The earliest letter of its route reaches p.
Take(p, l) ==
  /\ busy[p] /\ hand[p] = None
  /\ l.dst = p
  /\ \A k \in mail : SameRoute(k, l) => l.n <= k.n
  /\ mail' = mail \ {l}
  /\ hand' = [hand EXCEPT ![p] = l]
  /\ UNCHANGED <<calls, busy, result>>

\* The call ends: with the object taken, if one was, or with an exception.
Reply(p) ==
  /\ busy[p]
  /\ busy' = [busy EXCEPT ![p] = FALSE]
  /\ hand' = [hand EXCEPT ![p] = None]
  /\ \E r \in {IF hand[p] = None THEN Sent ELSE hand[p].obj, Raised} :
       result' = [result EXCEPT ![p] = r]
  /\ UNCHANGED <<mail, calls>>

MailNext ==
  \E p \in Proc :
    \/ Call(p)
    \/ \E l \in mail : Take(p, l)
    \/ Reply(p)

MailSpec == MailInit /\ [][MailNext]_mailVars
=============================================================================
