------------------------------ MODULE EnvStore ------------------------------
(* What a settings save promises: the file is a map from keys to values, and  *)
(* a save changes its own keys in one step, leaving every other key as it was.*)
(* Whoever asks for a save that fails or is cut short may find the file blank.*)
CONSTANTS Keys, Words, Requests, NoEdit

VARIABLES env,     \* the keys' values; the empty set for a key that is not there
          wanted   \* the edit each request has in hand

Files == [Keys -> SUBSET Words]
Blank == [k \in Keys |-> {}]
IsEdit(e) == e \in [DOMAIN e -> SUBSET Words] /\ DOMAIN e \subseteq Keys

Updated(file, edit) == [k \in Keys |-> IF k \in DOMAIN edit THEN edit[k] ELSE file[k]]

Init == env \in Files /\ wanted = [r \in Requests |-> NoEdit]

Ask(r) == /\ wanted[r] = NoEdit
          /\ wanted'[r] # NoEdit /\ IsEdit(wanted'[r])
          /\ wanted' = [wanted EXCEPT ![r] = wanted'[r]]
          /\ UNCHANGED env

Apply(r) == /\ wanted[r] # NoEdit
            /\ env' = Updated(env, wanted[r])
            /\ wanted' = [wanted EXCEPT ![r] = NoEdit]

Kept == env' = env \/ (env' = Blank /\ \E r \in Requests : wanted[r] # NoEdit)

Refuse(r) == wanted' = [wanted EXCEPT ![r] = NoEdit] /\ Kept

Crash == wanted' = [r \in Requests |-> NoEdit] /\ Kept

Next == Crash \/ \E r \in Requests : Ask(r) \/ Apply(r) \/ Refuse(r)

Spec == Init /\ [][Next]_<<env, wanted>>
=============================================================================
