----------------------------- MODULE LinkConsent -----------------------------
(***************************************************************************)
(* What secure pairing promises, without sessions, messages or timeouts.   *)
(* Boards sign transcripts; a transcript is the set of the two hellos of   *)
(* one handshake, and a hello names the key, and so the board, it comes    *)
(* from.  A board may install a link key for another board only if it is   *)
(* derived from a transcript of exactly these two boards which BOTH have   *)
(* signed.  A link may be lost at any time, at either end.                 *)
(***************************************************************************)
CONSTANT Devices

VARIABLES
  signed,  \* <<key, transcript>> pairs, never taken back
  link     \* link[d][m]: transcript of the key d uses towards m, or {}

vars == <<signed, link>>

Owner(key) == key[1]

\* Both ends of the handshake between d and m stand behind transcript t.
BothSigned(d, m, t, signatures) ==
  \E mine, theirs \in t :
    /\ t = {mine, theirs}
    /\ Owner(mine[1]) = d /\ Owner(theirs[1]) = m
    /\ <<mine[1], t>> \in signatures
    /\ <<theirs[1], t>> \in signatures

Init ==
  /\ signed = {}
  /\ link = [d \in Devices |-> [m \in Devices |-> {}]]

\* One board acts: it may sign, and it may drop or establish links of its own.
Act(d) ==
  /\ signed \subseteq signed'
  /\ \A s \in signed' \ signed : Owner(s[1]) = d
  /\ \A e \in Devices \ {d} : link'[e] = link[e]
  /\ \A m \in Devices :
       \/ link'[d][m] \in {link[d][m], {}}
       \/ BothSigned(d, m, link'[d][m], signed')

Next == \E d \in Devices : Act(d)

Spec == Init /\ [][Next]_vars
=============================================================================
