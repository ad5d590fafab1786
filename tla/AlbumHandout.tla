---------------------------- MODULE AlbumHandout ----------------------------
(***************************************************************************)
(* What the slskd release registry promises, without workers, locks or     *)
(* channels: an album has at most one holder at a time, a holder that has  *)
(* handed nothing out may give the album up, and once the release is out   *)
(* each of its files goes to at most one track.                            *)
(***************************************************************************)
CONSTANTS Tracks, Albums, Files, None

VARIABLES holder,   \* holder[a]: the track that leads album a, or None
          handed    \* the <<album, track, file>> assignments made so far

handoutVars == <<holder, handed>>

HandoutInit == /\ holder = [a \in Albums |-> None]
               /\ handed = {}

Lead(a, t) == /\ holder[a] = None
              /\ holder' = [holder EXCEPT ![a] = t]
              /\ UNCHANGED handed

\* Only a holder whose release was never queued may step down.
Resign(a) == /\ holder[a] # None
             /\ \A h \in handed : h[1] # a
             /\ holder' = [holder EXCEPT ![a] = None]
             /\ UNCHANGED handed

\* The holder takes the first file; others can follow only after that.
HandToHolder(a, f) == /\ holder[a] # None
                      /\ \A h \in handed : h[1] # a
                      /\ handed' = handed \cup {<<a, holder[a], f>>}
                      /\ UNCHANGED holder

HandToFollower(a, t, f) == /\ t # holder[a]
                           /\ \E g \in Files : <<a, holder[a], g>> \in handed
                           /\ \A h \in handed : h[1] = a => h[2] # t /\ h[3] # f
                           /\ handed' = handed \cup {<<a, t, f>>}
                           /\ UNCHANGED holder

HandoutNext == \E a \in Albums :
    \/ Resign(a)
    \/ \E t \in Tracks : Lead(a, t)
    \/ \E f \in Files : HandToHolder(a, f)
    \/ \E t \in Tracks, f \in Files : HandToFollower(a, t, f)

HandoutSpec == HandoutInit /\ [][HandoutNext]_handoutVars
=============================================================================
