----------------------------- MODULE MCNewsletter -----------------------------
(* Two addresses, each a page of its own.                                   *)
EXTENDS Newsletter

CONSTANTS e1, e2

ListOrder == <<e1, e2>>
===============================================================================
