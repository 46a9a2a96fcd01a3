------------------------------ MODULE TcpRelay ------------------------------
(***************************************************************************)
(* What a session promises the app and the server it stands between.  The  *)
(* server is given the app's bytes in order and each once; what the app    *)
(* sees confirmed has been given to the server, but for the app's end,     *)
(* after which nothing is given; and while the session is open the app has *)
(* got all that has been fetched from the server.  It promises nothing     *)
(* about when, and may give up at any time.                                *)
(***************************************************************************)
EXTENDS Integers, Sequences

VARIABLES
  stage,      \* "none", "opening", "open", "half" once the server has closed, or "closed"
  total,      \* how many bytes the app has to send
  given,      \* those of them the server has been given
  confirmed,  \* below which offset the app has seen its stream confirmed: 0 is its
              \* opening, and its end follows its last byte
  fetched,    \* how many bytes the server has sent
  got,        \* how much of the opening, these and the end the app has got
  gone        \* the app has been told that the session is over

relayVars == <<stage, total, given, confirmed, fetched, got, gone>>

\* The first n of a peer's bytes.
beginning(n) == [i \in 1 .. n |-> i]

RelayInit ==
  /\ stage = "none" /\ gone = FALSE
  /\ total \in Nat
  /\ given = <<>> /\ confirmed = 0
  /\ fetched = 0 /\ got = 0

\* A session begins, perhaps once more, for an app of which nothing has been relayed.
Begin ==
  /\ stage \in {"none", "closed"} /\ stage' = "opening"
  /\ given = <<>> /\ fetched = 0
  /\ UNCHANGED <<total, given, confirmed, fetched, got, gone>>

\* The app is answered, ...
Answer ==
  /\ stage = "opening" /\ got = 0 /\ ~gone
  /\ got' = 1 /\ confirmed' = 1
  /\ UNCHANGED <<stage, total, given, fetched, gone>>

\* ... and has said so.
Open ==
  /\ stage = "opening" /\ stage' = "open"
  /\ given = <<>> /\ fetched = 0 /\ got = 1
  /\ UNCHANGED <<total, given, confirmed, fetched, got, gone>>

\* More of the app's bytes are given, unless its end has been confirmed, ...
Give ==
  /\ \E n \in Len(given) .. total : given' = beginning(n)
  /\ given' # given => confirmed <= Len(given) + 1

\* ... and confirmed.
Confirm == confirmed <= confirmed' /\ confirmed' <= Len(given') + 2

\* More of the server's bytes, or their end, are fetched and passed on.
Fetch ==
  /\ fetched <= fetched' /\ got <= got' /\ got' <= fetched' + 2
  /\ stage' = "open" /\ ~gone' => got' = fetched' + 1
  /\ stage' = "half" /\ ~gone' => got' = fetched' + 2
  /\ gone => got' = got

Relay ==
  /\ stage = "open" /\ stage' \in {"open", "half", "closed"}
  /\ Give /\ Confirm /\ Fetch
  /\ IF stage' = "closed" THEN gone => gone' ELSE UNCHANGED gone
  /\ UNCHANGED total

\* What was under way when the session closed, and the app's end if it is the second.
Finish ==
  /\ stage \in {"half", "closed"} /\ stage' = "closed"
  /\ IF stage = "closed" THEN Give ELSE UNCHANGED given
  /\ Confirm
  /\ UNCHANGED <<total, fetched, got, gone>>

\* The session closes, for whatever reason; the app may be told.
Shut ==
  /\ stage # "none" /\ stage' = "closed"
  /\ gone => gone'
  /\ UNCHANGED <<total, given, confirmed, fetched, got>>

\* It is forgotten, and the app is told when it sends more.
Forget ==
  /\ stage \in {"none", "closed"} /\ stage' = "none"
  /\ gone => gone'
  /\ UNCHANGED <<total, given, confirmed, fetched, got>>

RelayNext ==
  Begin \/ Answer \/ Open \/ Relay \/ Finish \/ Shut \/ Forget

RelaySpec == RelayInit /\ [][RelayNext]_relayVars
=============================================================================
