----------------------------- MODULE OutputPower -----------------------------
(***************************************************************************)
(* The power state of the lights (daemon, output_power.rs): the record     *)
(* behind the watch channel, the updates each caller applies to it, and    *)
(* the generation that fences the session's slow transitions.  An update   *)
(* is one send_modify, so it is an operator from a state to the next.      *)
(*                                                                         *)
(* Left out: the global brightness, which no update below reads, and the   *)
(* colours of a static hold.                                               *)
(***************************************************************************)
EXTENDS Naturals

Overrides == {"None", "Paused", "Stopped"}
Behaviors == {"Static", "Release"}

\* The session's share of the brightness: off, dimmed, full.
Off == 0
Dimmed == 1
Full == 2
Brightness == Off .. Full

States(generations) ==
  [override : Overrides, session_sleeping : BOOLEAN, brightness : Brightness,
   generation : generations, behavior : Behaviors]

\* The state of a daemon that restored the override its last run saved.
Restored(override) ==
  [override |-> override, session_sleeping |-> FALSE, brightness |-> Full,
   generation |-> 0, behavior |-> "Static"]

sleeping(s) == s.override # "None" \/ s.session_sleeping

effective_behavior(s) ==
  CASE s.override = "Paused"  -> "Static"
    [] s.override = "Stopped" -> "Release"
    [] s.override = "None"    -> s.behavior

session_release_active(s) ==
  s.session_sleeping /\ s.override = "None" /\ s.behavior = "Release"
------------------------------------------------------------------------------
\* Updates of the user: each begins a new transition.
set_manual_pause(s) ==
  [s EXCEPT !.generation = @ + 1, !.override = "Paused"]

set_output_stopped(s) ==
  [s EXCEPT !.generation = @ + 1, !.override = "Stopped"]

clear_output_override(s) ==
  [s EXCEPT !.generation = @ + 1, !.override = "None",
            !.session_sleeping = FALSE, !.brightness = Full]

\* Updates of the session: the first begins a transition, the others belong to
\* the transition g and do nothing once a newer one has begun.
begin_session_transition(s) == [s EXCEPT !.generation = @ + 1]

\* Variant: an update applies whatever has begun since.
unfenced_update(s, g, new) == new

update_for_generation(s, g, new) == IF s.generation = g THEN new ELSE s

clear_session_sleep(s, g) ==
  update_for_generation(s, g, [s EXCEPT !.session_sleeping = FALSE])

pause_for_session(s, g, behavior) ==
  update_for_generation(s, g, [s EXCEPT !.brightness = Off,
                                        !.session_sleeping = TRUE,
                                        !.behavior = behavior])

fade_session_to(s, g, b) ==
  update_for_generation(s, g, [s EXCEPT !.brightness = b])

\* The outputs a release has to reconnect (released_output_reconnect_scope).
reconnect_scope(s) ==
  IF session_release_active(s) THEN {"All"}
  ELSE IF s.override = "Stopped" THEN {"Network"}
  ELSE {}
==============================================================================
