---------------------------- MODULE MCUserCache ----------------------------
(***************************************************************************)
(* Values of the constants of UserCache for TLC: an account of /etc/passwd *)
(* and one of another source, such as a directory server.                  *)
(***************************************************************************)
EXTENDS UserCache

TwoUIDs   == {1, 2}
SecondUID == {2}
TwoNames  == {"a", "b"}

=============================================================================
