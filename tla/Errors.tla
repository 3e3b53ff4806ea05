-------------------------------- MODULE Errors --------------------------------
(***************************************************************************)
(* How the SDK sorts errors into kinds (pkg/types/err.go).                 *)
(*                                                                         *)
(* An error is [kind, code]: a *RoomzinError has a kind; any other error,  *)
(* and a string, is a text, of kind "none", whose code is what stands in   *)
(* front of its first colon.                                               *)
(***************************************************************************)

Kinds == {"client", "request", "internal", "retry"}

Plain(code) == [kind |-> "none", code |-> code]

RequestCodes == {"VALIDATION_ERROR", "NOT_FOUND", "OVERFLOW", "UNDERFLOW", "FORBIDDEN"}
RetryCodes   == {"503", "429", "308", "405"}

\* A fault: what the SDK does not know is worth another try.
ClassifyHopeful(code) ==
  IF code = "AUTH_ERROR" THEN "client"
  ELSE IF code \in RequestCodes THEN "request"
  ELSE "retry"

\* The kind of a text, by its code.
Classify(code) ==
  IF code = "AUTH_ERROR" THEN "client"
  ELSE IF code \in RequestCodes THEN "request"
  ELSE IF code \in RetryCodes THEN "retry"
  ELSE "internal"

CodeOf(kind) ==
  CASE kind = "client"  -> "CLIENT_ERROR"
    [] kind = "request" -> "REQUEST_ERROR"
    [] kind = "retry"   -> "RETRY_ERROR"
    [] OTHER            -> "INTERNAL_ERROR"

\* RzError(e): an error that has a kind keeps it, any other is classified ...
RzError(e) ==
  IF e.kind # "none" THEN e ELSE [kind |-> Classify(e.code), code |-> e.code]

\* ... and RzError(e, kind): or gets the kind it is given, and loses its code.
RzErrorAs(e, kind) ==
  IF e.kind # "none" THEN e ELSE [kind |-> kind, code |-> CodeOf(kind)]
===============================================================================
