---------------------------- MODULE MCChatLogin ----------------------------
(***************************************************************************)
(* Instances of ChatLogin: two chat servers and up to three connections.   *)
(***************************************************************************)
EXTENDS ChatLogin, TLC

CONSTANTS s1, s2, a1, a2, u1, c1, c2, c3

\* Two connections of one user to the first server, one to the second: a login
\* can meet an older one on its own server and on the other.
AtBoth == (c1 :> s1) @@ (c2 :> s1) @@ (c3 :> s2)
OneUser == (c1 :> u1) @@ (c2 :> u1) @@ (c3 :> u1)

\* Of these, c1 and c2 have the same server and the same user.
Twins == Permutations({c1, c2})

\* One connection to each server, same user.
AtPair == (c1 :> s1) @@ (c2 :> s2)
OneUserPair == (c1 :> u1) @@ (c2 :> u1)

\* A single connection.
AtOne == c1 :> s1
OneUserOne == c1 :> u1

\* config.ini as shipped: peers are known by 127.0.0.1:<RPC port>, which is no
\* server's name.
ShippedAddr == (s1 :> a1) @@ (s2 :> a2)
\* A deployment where each server's Name is the host:port its peers dial.
NamedByAddr == (s1 :> s1) @@ (s2 :> s2)
=============================================================================
