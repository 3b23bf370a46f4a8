-------------------------- MODULE ResumeProcessing --------------------------
(***************************************************************************)
(* services/resume_service.py process_resume: the text of an uploaded file *)
(* is extracted (services/parsing/extractor.py) and structured by one call *)
(* to complete_structured (services/parsing/structurer.py), the only one   *)
(* there is, of LLMClient.  Nothing is stored but the row of that call.    *)
(* Streams of other callers share the client and the connection pool.      *)
(*                                                                         *)
(* Of a file only what the extractor tells apart matters; the libraries    *)
(* that read it are external.  Their exceptions are of the types the code  *)
(* expects ("damaged") or not ("malformed", as broken XML inside a sound   *)
(* archive).                                                               *)
(***************************************************************************)
EXTENDS LLMClient

CONSTANT Uploads \* bound: the files that are uploaded

Formats == {"pdf", "docx"}

File == [within_limit : BOOLEAN,                          \* MAX_FILE_BYTES
         mime : Formats \cup {"other"},
         extension : Formats \cup {"other"},              \* in lower case
         body : {"text", "blank", "encrypted", "damaged", "malformed"}]

ASSUME UploadsAssumption == Uploads \subseteq File

VARIABLE upload \* the file of each call, and the error of its extraction

Extractions == {"text", "InvalidFileTypeError", "ExtractionError", "untyped"}

NoUpload == [file |-> None, extraction |-> None]

ProcessingTypeOK ==
  /\ TypeOK
  /\ upload \in [Calls -> [file : Uploads, extraction : Extractions] \cup {NoUpload}]

ProcessingInit == Init /\ upload = [c \in Calls |-> NoUpload]

-----------------------------------------------------------------------------
\* _extract_pdf and _extract_docx: what the library makes of the file decides.
\* For the DOCX reader an encrypted file is no archive, which it reports as
\* damaged; _require_non_empty refuses a text of white space.
Extracted(body) ==
  CASE body = "text" -> "text"
    [] body \in {"encrypted", "damaged", "blank"} -> "ExtractionError"
    [] body = "malformed" -> "untyped"

\* extract_text: the size, and MIME type and extension together.
ExtractText(file) ==
  IF file.within_limit /\ file.mime \in Formats /\ file.extension = file.mime
    THEN Extracted(file.body) ELSE "InvalidFileTypeError"

\* Mutant: a file that cannot be read is structured as an empty text.
StructureLenient(c, held, extraction) ==
  /\ extraction \in {"text", "ExtractionError"}
  /\ Begin(c, "complete", held)

\* structure_resume: the text goes to complete_structured, fenced.
Structure(c, held, extraction) ==
  /\ extraction = "text"
  /\ Begin(c, "complete", held)

\* The exception goes to the caller, whose transaction may be open.
Refuse(c, held, extraction) ==
  /\ extraction # "text"
  /\ At(c, "new")
  /\ held => free > 0
  /\ free' = IF held THEN free - 1 ELSE free
  /\ call' = [call EXCEPT ![c].step = "returned", ![c].in_transaction = held]
  /\ UNCHANGED <<answers, rows, swallowed>>

Process(c, file, held) ==
  LET extraction == ExtractText(file) IN
  /\ Structure(c, held, extraction) \/ Refuse(c, held, extraction)
  /\ upload' = [upload EXCEPT ![c] = [file |-> file, extraction |-> extraction]]

-----------------------------------------------------------------------------
\* A caller of stream_structured.
BeginStream(c, held) == Begin(c, "stream", held) /\ UNCHANGED upload

Proceed(c) ==
  /\ Provider(c) \/ Resume(c) \/ Abandon(c) \/ Client(c)
  /\ UNCHANGED upload

ProcessingNext ==
  \E c \in Calls :
    \/ \E file \in Uploads, held \in BOOLEAN : Process(c, file, held)
    \/ \E held \in BOOLEAN : BeginStream(c, held)
    \/ Proceed(c)

\* As for LLMClient.
ProcessingSpec ==
  /\ ProcessingInit /\ [][ProcessingNext]_<<vars, upload>>
  /\ \A c \in Calls : WF_<<vars, upload>>(Proceed(c))

-----------------------------------------------------------------------------
\* What a user may expect of a file, whatever the steps of its processing.
Sound(file) ==
  /\ <<file.mime, file.extension>> \in {<<"pdf", "pdf">>, <<"docx", "docx">>}
  /\ file.within_limit /\ file.body = "text"

(* The outcome of an upload tells its cause.  The provider is asked, and a *)
(* row written, only for a sound file ("the LLM is never called when       *)
(* extraction fails"), which ends in a resume exactly if the last answer   *)
(* was valid.  Every other file is refused with an error that says whether *)
(* its type and size or its content are at fault, unless the reader failed *)
(* in a way nobody foresaw (process_resume, structure_resume,              *)
(* complete_structured).                                                   *)
OutcomeTellsCause ==
  \A c \in Calls : upload[c] # NoUpload =>
    LET file == upload[c].file
        over == call[c].step \in {"returned", "over"}
    IN  IF Sound(file)
          THEN /\ upload[c].extraction = "text"
               /\ over => /\ answers[c] # <<>>
                          /\ call[c].result = "validated" <=> LastAnswer(c) = "valid"
          ELSE /\ over /\ answers[c] = <<>> /\ rows[c] = <<>> /\ call[c].result = None
               /\ upload[c].extraction =
                    IF ~file.within_limit \/ file.mime # file.extension
                         \/ file.mime = "other" THEN "InvalidFileTypeError"
                    ELSE IF file.body = "malformed" THEN "untyped"
                    ELSE "ExtractionError"
=============================================================================
