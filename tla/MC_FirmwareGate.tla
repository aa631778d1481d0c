-------------------------- MODULE MC_FirmwareGate --------------------------
EXTENDS FirmwareGate

(* One reply of each shape classify() tells apart: the usual answer, an    *)
(* image, a redirect to one, a bad gateway.                                *)
MCReplies == {[status |-> 200, body |-> "[]"],
              [status |-> 200, body |-> "not json"],
              [status |-> 302, body |-> "blank"],
              [status |-> 502, body |-> "not json"]}
=============================================================================
