------------------------- MODULE MCRaftMessageCodec -------------------------
(* Numbers made of the bytes at the boundaries: zero, below and from 128. *)
EXTENDS RaftMessageCodec

\* 0, the nodeId 10086 and the contentLength 1024 of test.cpp, a number below
\* 2^24 with a byte from 128 on, and a hash of host and port.
Words == {<<0, 0, 0, 0>>, <<0, 0, 39, 102>>, <<0, 0, 4, 0>>,
          <<0, 1, 200, 2>>, <<150, 3, 255, 127>>}

CandidateIds == {<<0, 0, 0, 2>>, <<0, 0, 126, 128>>, <<0, 0, 127, 1>>,
                 <<150, 3, 255, 127>>}
=============================================================================
