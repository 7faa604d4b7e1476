---------------------------- MODULE InOrderFilter ----------------------------
(***************************************************************************)
(* What the time-synchronized inertial filter promises: whenever a GNSS    *)
(* measurement is handed over, the filter is the one that would have       *)
(* processed every IMU sample and every measurement in the order of their  *)
(* epochs, the samples cut at the epochs of the measurements inside them.  *)
(*                                                                         *)
(* The estimate itself is not modelled: two filters agree when they were   *)
(* propagated over the same pieces of the same samples and corrected by    *)
(* the same measurements at the same epochs.                               *)
(*                                                                         *)
(* What it does not promise: pseudo-measurements (zero velocity, non-      *)
(* holonomic) applied after the point a late measurement goes back to are  *)
(* dropped, and a caller that restores a snapshot which is not a past      *)
(* state of this filter gets no promise until it loads a saved state.      *)
(***************************************************************************)
EXTENDS Naturals, Sequences

CONSTANTS MaxTime, SampleKinds, GnssKinds, PseudoKinds

VARIABLES
    content,    \* [t, at, segs, ps], see below
    free,       \* a foreign snapshot was restored
    stored      \* the content last saved, with its free flag

(* t: the epoch; at[e]: the measurements applied at epoch e, in order;      *)
(* segs: the pieces [a, b, of] of samples propagated over; ps: the pseudo-  *)
(* measurements [kind, t] in effect.                                        *)
Epochs == 0 .. MaxTime
ovars == <<content, free, stored>>

Start == [t |-> 0, at |-> [e \in Epochs |-> <<>>], segs |-> {}, ps |-> {}]

(* The piece that contains e is cut in two there.                           *)
Cut(segs, e) ==
    UNION { IF s.a < e /\ e < s.b
            THEN {[s EXCEPT !.b = e], [s EXCEPT !.a = e]}
            ELSE {s} : s \in segs }

(* The state of c when it was at epoch t                                    *)
Past(c, t) ==
    [t |-> t,
     at |-> [e \in Epochs |-> IF e <= t THEN c.at[e] ELSE <<>>],
     segs |-> {s \in c.segs : s.b <= t}]

Feed(t, k) ==
    /\ t > content.t
    /\ content' = [content EXCEPT
         !.t = t,
         !.segs = @ \cup {[a |-> content.t, b |-> t,
                           of |-> [from |-> content.t, to |-> t, kind |-> k]]}]
    /\ UNCHANGED <<free, stored>>

Fix(e, k) ==
    /\ e <= content.t
    /\ \E kept \in SUBSET content.ps :
         /\ e = content.t => kept = content.ps
         /\ \A x \in kept, y \in content.ps : y.t < x.t => y \in kept
         /\ content' = [content EXCEPT
              !.at[e] = Append(@, k), !.segs = Cut(@, e), !.ps = kept]
    /\ UNCHANGED <<free, stored>>

Pseudo(k) ==
    /\ [kind |-> k, t |-> content.t] \notin content.ps
    /\ content' = [content EXCEPT !.ps = @ \cup {[kind |-> k, t |-> content.t]}]
    /\ UNCHANGED <<free, stored>>

(* The caller goes back to a past state of this filter.                     *)
Rewind ==
    /\ content'.t <= content.t
    /\ Past(content', content'.t) = Past(content, content'.t)
    /\ content'.ps \subseteq [kind : PseudoKinds, t : 0 .. content'.t]
    /\ UNCHANGED <<free, stored>>

Save == stored' = [content |-> content, free |-> free] /\ UNCHANGED <<content, free>>

Load ==
    /\ content' = stored.content
    /\ free' = stored.free
    /\ UNCHANGED stored

(* A foreign snapshot is restored, or was before.                           *)
Foreign == free' /\ UNCHANGED stored

Init ==
    /\ content = Start
    /\ free = FALSE
    /\ stored = [content |-> Start, free |-> FALSE]

Next ==
    \/ \E t \in Epochs, k \in SampleKinds : Feed(t, k)
    \/ \E e \in Epochs, k \in GnssKinds : Fix(e, k)
    \/ \E k \in PseudoKinds : Pseudo(k)
    \/ Rewind \/ Save \/ Load \/ Foreign

Spec == Init /\ [][Next]_ovars
=============================================================================
