-------------------------- MODULE MessageDelivery --------------------------
(***************************************************************************)
(* What the MQTT client promises for the messages of mqtt_publish, with no *)
(* buffer, socket or mutex in sight: a message is accepted or refused at   *)
(* once; those that are accepted arrive in that order, each once, none     *)
(* before one accepted earlier; and the link only ever gets worse.  Once   *)
(* it is full nothing more is accepted, but what was accepted still        *)
(* arrives; once it is broken nothing happens any more.  MqttClient        *)
(* implements this specification (see there), and DataTrans relies on it   *)
(* for what client_.error may become.                                      *)
(***************************************************************************)
EXTENDS Naturals, Sequences

VARIABLES
    accepted,           \* the messages are numbered as they are accepted
    delivered,          \* those that have arrived, in that order
    link                \* "open", "full" or "broken"

dvars == <<accepted, delivered, link>>

\* What a link may become.
Worse(l) == CASE l = "open" -> {"open", "full", "broken"}
              [] l = "full" -> {"full", "broken"}
              [] OTHER      -> {"broken"}

Init ==
    /\ accepted = 0
    /\ delivered = << >>
    /\ link = "open"

Accept ==
    /\ link = "open"
    /\ accepted' = accepted + 1
    /\ UNCHANGED <<delivered, link>>

\* Some of the messages that are next arrive, or none; the link may turn full,
\* or break behind them.
Deliver ==
    /\ link # "broken"
    /\ \E n \in Len(delivered) .. accepted : delivered' = [i \in 1 .. n |-> i]
    /\ link' \in Worse(link)
    /\ UNCHANGED accepted

Next == Accept \/ Deliver

Spec == Init /\ [][Next]_dvars
=============================================================================
