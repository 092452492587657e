------------------------------- MODULE MCCSIo --------------------------------
(* CSIo for TLC: the source's table of four, a sequence byte and an index  *)
(* that wrap within the datagrams made.                                    *)
EXTENDS CSIo

=============================================================================
