------------------------- MODULE MCResumeProcessing -------------------------
(* ResumeProcessing with one upload for every way in which it can end.     *)
EXTENDS ResumeProcessing

Sent(within_limit, mime, extension, body) ==
  [within_limit |-> within_limit, mime |-> mime, extension |-> extension, body |-> body]

MCUploads ==
  {Sent(TRUE, "docx", "docx", "text"), Sent(FALSE, "pdf", "pdf", "text"),
   Sent(TRUE, "docx", "pdf", "text"), Sent(TRUE, "other", "other", "text"),
   Sent(TRUE, "docx", "docx", "malformed")}
    \cup {Sent(TRUE, "pdf", "pdf", body) : body \in {"blank", "encrypted", "damaged"}}
=============================================================================
