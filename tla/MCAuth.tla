-------------------------------- MODULE MCAuth --------------------------------
(* An operator, a user with a key and a guest without, two addresses, one  *)
(* client version.                                                         *)
EXTENDS Admission, TLC

CONSTANTS op, user, guest, opkey, key, home, away, client

MCKeyOf == [c \in Conns |->
    (op :> opkey @@ user :> key @@ guest :> NoKey)[c]]
MCAddrOf == [c \in Conns |->
    (op :> home @@ user :> away @@ guest :> away)[c]]
MCClientOf == [c \in Conns |-> client]

MCQueries == {{<<"bannedClient", client>>, <<"bannedAddr", away>>}}
=============================================================================
