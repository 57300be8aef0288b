-------------------------- MODULE MCCalcsigServer --------------------------
(* The server with few workers and requests.  Two sources have different
   directories under one common partition directory. *)
EXTENDS CalcsigServer, TLC

CONSTANTS w1, w2, r1, r2, r3, base, tmpdir, v1, a1, b1, songA, songB

OneWorker == {w1}
TwoWorkers == {w1, w2}

Tree == {base, tmpdir, v1, a1, b1}
InTree == base :> base @@ tmpdir :> base @@ v1 :> base @@ a1 :> v1 @@ b1 :> v1
Fresh == {base}
Used == {base, tmpdir}
SlashAtEnd == <<base, tmpdir, tmpdir>>
PathOfSong == songA :> <<base, v1, a1>> @@ songB :> <<base, v1, b1>>

(* Two tasks at once, from different sources. *)
TwoTasks == {r1, r2}
TwoValid == r1 :> "calcsig" @@ r2 :> "calcsig"
TwoSongs == r1 :> songA @@ r2 :> songB

(* Other requests between them. *)
ThreeRequests == {r1, r2, r3}
MixedKinds == r1 :> "calcsig" @@ r2 :> "blank" @@ r3 :> "get"
ThreeValid == r1 :> "calcsig" @@ r2 :> "calcsig" @@ r3 :> "calcsig"
ThreeSongs == r1 :> songA @@ r2 :> songA @@ r3 :> songB

NoFaults == {}
AllFaults == {"mkdir", "open", "curl", "write", "read", "rename", "evbuffer", "listen", "head"}
==============================================================================
