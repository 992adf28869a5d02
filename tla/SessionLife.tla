---------------------------- MODULE SessionLife ----------------------------
(***************************************************************************)
(* What a session's saved record promises: a session waits; it is spent by *)
(* a locked break that never trades, or it fires, and may fire once more.  *)
(* Nothing leads back.  When its market day is over it is over.            *)
(***************************************************************************)
EXTENDS Naturals

CONSTANT Sessions
VARIABLE phase

Phases == {"waiting", "locked", "once", "twice", "over"}

(* From each phase, the phases the next saved record may show. *)
Later == [waiting |-> {"locked", "once", "twice", "over"},
          locked  |-> {"over"},
          once    |-> {"twice", "over"},
          twice   |-> {"over"},
          over    |-> {}]

Init == phase = [s \in Sessions |-> "waiting"]
Next == /\ phase' \in [Sessions -> Phases]
        /\ \A s \in Sessions : phase'[s] = phase[s] \/ phase'[s] \in Later[phase[s]]
Spec == Init /\ [][Next]_phase
=============================================================================
