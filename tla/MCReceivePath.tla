--------------------------- MODULE MCReceivePath ---------------------------
(* Instances of ReceivePath for TLC.                                       *)
EXTENDS ReceivePath

\* Bytes are bits, so that headers have five of them as in the code.
Bits == 0..1

\* Bodies of no to three bytes.
Letters == {<<>>, <<1>>, <<0, 1, 1>>}

=============================================================================
