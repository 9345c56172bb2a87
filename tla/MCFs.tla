-------------------------------- MODULE MCFs --------------------------------
(* Fs with a file f in the root and a directory d.  One process makes and  *)
(* removes names, the other one lives with that: it opens, creates and     *)
(* changes to what may be gone.                                            *)
EXTENDS Fs

CONSTANTS p1, p2

SomeNames == {".", "..", "d", "f"}
C(call, path) == [call |-> call, path |-> path, new |-> <<>>]
SomeCalls ==
  (p1 :> {C("mkdir", <<"/", "d">>), C("unlink", <<"/", "d">>), C("unlink", <<"/", "f">>),
          C("mkdir", <<"/", "d", "d">>), C("unlink", <<"/", "d", "d">>),
          [call |-> "link", path |-> <<"f">>, new |-> <<"/", "d", "f">>]})
  @@ (p2 :> {C("create", <<"f">>), C("mknod", <<"f">>), C("chdir", <<"d">>), C("chdir", <<"..">>),
             C("openrw", <<".">>), C("unlink", <<"f">>)})
=============================================================================
