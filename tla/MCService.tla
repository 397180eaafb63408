----------------------------- MODULE MCService -----------------------------
(* Service for TLC: a file of one of the earlier releases, with two        *)
(* challenges, one of a controller that has no bootstrap.  Clients a and b *)
(* of one home upload: both send x, b with the content of a or another,    *)
(* and b sends z.                                                          *)
EXTENDS Service

CONSTANTS a, b, c1, i1, k1, c, d, x, z, full, changed

TheHome == {ControllerRow(i1, c1, k1), ClientRow(i1, a), ClientRow(i1, b)}

Upload(client, id, digest) ==
  [op |-> "upload", id |-> id, inst |-> i1, client |-> client,
   controller |-> c1, kind |-> "oelo_configuration", digest |-> digest]

UploadX == Upload(a, x, full)
UploadSame == Upload(b, x, full)
UploadOther == Upload(b, x, changed)
UploadZ == Upload(b, z, full)

TheUploads == {UploadX, UploadSame, UploadOther, UploadZ}

Latest == [op |-> "latest", inst |-> i1, client |-> a, controller |-> c1,
           kind |-> "oelo_configuration"]

TheQueries == {Latest}

Push(n) == [op |-> "push", n |-> n]

ThePushes == {Push(1), Push(2)}

TheRequests == TheUploads \cup TheQueries \cup ThePushes

TheWorkloads == {{UploadX, UploadSame}, {UploadX, UploadOther}, {UploadX, UploadZ, Latest},
                 {Push(1), Push(2)}, {UploadX, Push(1)}}
=============================================================================
