-------------------------- MODULE MCSecretSharing --------------------------
(***************************************************************************)
(* SecretSharing over GF(8): small enough to try every coefficient the     *)
(* random generator can draw, every value a secret byte could have and     *)
(* every sequence of shares.                                               *)
(***************************************************************************)
EXTENDS SecretSharing

\* One-byte secrets, zero among them, with thresholds 3 and 2; a two-byte
\* secret with a zero byte; and what sss_split must refuse.
MCDealings ==
  {<< <<0>>, 5, 3>>, << <<6>>, 5, 3>>, << <<1>>, 7, 2>>, << <<5, 0>>, 3, 2>>,
   << <<>>, 3, 2>>, << <<1, 1, 1>>, 3, 2>>, << <<1>>, 2, 3>>, << <<1>>, 3, 1>>,
   << <<1>>, 8, 2>>}

=============================================================================
