-------------------------------- MODULE Pages --------------------------------
(***************************************************************************)
(* The pages of the web client.  A page is used by one browser.  It makes  *)
(* calls, whose answers it takes in any order, and does things of its own  *)
(* that take no call: typing, switching views, closing, reloading.         *)
(*                                                                         *)
(* Lost answers are as React and fetch have them: an awaited call rejects, *)
(* and what was to follow it does not happen.  The server may yet perform  *)
(* such a call.                                                            *)
(***************************************************************************)
EXTENDS ApiCalls

CONSTANT
  MaxActs        (* bound on what is done on a page without a call           *)

ASSUME PagesAssumption == MaxActs \in Nat
=============================================================================
