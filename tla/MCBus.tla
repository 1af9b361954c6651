------------------------------- MODULE MCBus -------------------------------
(***************************************************************************)
(* Bus with two endpoints: what one recipient sees next to another.  And   *)
(* what makes its frames clean or not: the codec, with bytes of three bits,*)
(* ids of one byte and a checksum of two (of the polynomial x^6 + x + 1).  *)
(***************************************************************************)
EXTENDS Wire

CONSTANTS alice, bob
MCEndpoint == { alice, bob }

MCMagic == << 5 >>
MCPoly == << 1, 1, 0, 0, 0, 0 >>
MCIds == { << 0 >>, << 6 >> }
MCPayloads == UNION { [1 .. n -> {0, 3, 7}] : n \in 0 .. 2 }

(* Byte strings that are frames, or nearly.                                *)
Bodies == { << b[1], b[2] >> \o b[3] \o b[4] \o << b[5] >> \o b[6] :
              b \in {2, 5} \X Bytes \X MCIds \X MCIds \X Bytes \X MCPayloads }
MCStrings == { body \o Checksum(body) : body \in Bodies }
             \cup { body \o << 0, 0 >> : body \in Bodies }
             \cup UNION { [1 .. n -> {0, 5}] : n \in 0 .. 6 }
=============================================================================
