---------------------------- MODULE MCWebServer ----------------------------
(* Small instances of WebServer for TLC.                                      *)
EXTENDS WebServer, TLC

CONSTANTS p1, p2, r1, r2, b1, b2

\* A file with all playlists disabled, and one with flags typed by hand.
Fresh == [k \in Keys |-> {}]
Edited == [k \in Keys |-> IF k = <<"FLAGS", p1>> THEN {"base", "typed", "local"}
                          ELSE IF k \in {<<"SCHEDULE", p1>>, <<"ADMIN", Instance>>} THEN {"on"} ELSE {}]
OneText == {Edited}

\* The two parts share nothing but the restart: where the sessions have calls to
\* serve, the settings start from one file and have little or nothing to do.
MCInit ==
    /\ ServerInit
    /\ \/ requestsLeft = MaxRequests /\ callsLeft = 0
       \/ /\ <<requestsLeft, callsLeft>> \in {<<0, MaxCalls>>, <<1, 1>>}
          /\ file = SampleEnv /\ users = FALSE

\* The first call may see three sessions, which is what two refusals take, the
\* second two, and the third one, or two while one of the browsers has no call.
Quiet(b) == \A n \in Slots : Free(<<b, n>>)
Small == made <= callsLeft + 1 \/ (made = 2 /\ \E b \in Browsers : Quiet(b))
MCNext == ServerNext /\ Small'
MCSpec == MCInit /\ [][MCNext]_serverVars

Symmetry == Permutations(Requests)
=============================================================================
