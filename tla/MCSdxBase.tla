------------------------------ MODULE MCSdxBase ------------------------------
(* One to three inputs per output, five arrivals, two failing calls and one   *)
(* change of a property: a FIFO that is filled, slides and is emptied, with   *)
(* events before, between and behind, on every path of an error.              *)
EXTENDS SdxBase
===============================================================================
