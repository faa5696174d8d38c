----------------------------- MODULE MCStoredChain -----------------------------
(***************************************************************************)
(* The numbers up to MaxNr and the number 0, two versions of number 2, and *)
(* of 1 and 2 ways in which their bytes fail to decode.                    *)
(***************************************************************************)
EXTENDS StoredChain

CONSTANTS b1, b2

Version(id, body, form) == [id |-> id, body |-> body, form |-> form]

MCOffers ==
  {Version(id, b1, "whole") : id \in Numbers}
    \cup {Version(2, b2, "whole")}
    \cup {Version(2, b1, form) : form \in Forms}
    \cup {Version(1, b1, "unhandled")}

\* Everything; two halves that meet; one number again; more than there may be;
\* an end before the beginning.
MCRanges == {<<0, 0>>, <<1, 2>>, <<3, 0>>, <<2, 2>>, <<2, 3>>, <<3, 1>>}

=============================================================================
