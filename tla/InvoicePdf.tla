----------------------------- MODULE InvoicePdf -----------------------------
(***************************************************************************)
(* The stored PDF of one invoice.  A delivery by mail and a download first *)
(* look for a stored PDF; without one they render the invoice they read,   *)
(* with the logo of its administrator or of the platform, and store and    *)
(* link it, except that the preview of a draft is not stored.  The object  *)
(* has one key per invoice and is overwritten in place.  Everything the    *)
(* handler knows of the invoice it read when it began.  An edit asks for a *)
(* draft when it reads and writes later, whatever the status has become.   *)
(***************************************************************************)
EXTENDS Naturals, FiniteSets

CONSTANTS
  Logos,        \* logo images
  Nothing,      \* null
  Jobs,         \* deliveries and downloads that may run at the same time
  MaxVersion,   \* bound: versions an edit may give the draft
  MaxMails      \* bound: deliveries begun

VARIABLES
  logo,      \* the effective logo: the administrator's or the platform's
  invoice,   \* the row: status, version of its lines, whether a PDF is linked
  edits,     \* edits that have read a draft and not yet written
  late,      \* history: an edit was written over an invoice that was no draft
  pdf,       \* what the store holds under the invoice's key
  job,       \* the deliveries and downloads under way
  begun,     \* deliveries begun
  mailed     \* what was mailed

vars == <<logo, invoice, edits, late, pdf, job, begun, mailed>>

\* SENT stands for every status after the mail, VIEWED to PAID included.
Invoice == [status: {"DRAFT", "SENT", "CANCELLED"}, version: 1..MaxVersion,
            linked: BOOLEAN]

Page == [version: 1..MaxVersion, logo: Logos \cup {Nothing}]

PdfStages ==
  {"idle", "fetch", "brand", "logo", "put", "link", "send", "issue"}

Job == [stage: PdfStages, kind: {"mail", "download"}, seen: Invoice,
        page: Page, nth: Nat]

Draft == [status |-> "DRAFT", version |-> 1, linked |-> FALSE]

NoJob == [stage |-> "idle", kind |-> "download", seen |-> Draft,
          page |-> [version |-> 1, logo |-> Nothing], nth |-> 0]

Init ==
  /\ logo = Nothing
  /\ invoice = Draft
  /\ edits = 0
  /\ late = FALSE
  /\ pdf = Nothing
  /\ job = [j \in Jobs |-> NoJob]
  /\ begun = 0
  /\ mailed = {}

Move(j, stage) == job' = [job EXCEPT ![j].stage = stage]

Ended(j) == job' = [job EXCEPT ![j] = NoJob]

\* With the PDF in hand a delivery mails it, a download returns it.
Holding(j, page) ==
  IF job[j].kind = "mail"
    THEN job' = [job EXCEPT ![j].stage = "send", ![j].page = page]
    ELSE Ended(j)

-----------------------------------------------------------------------------
DeliveryBegins(j) ==
  /\ job[j].stage = "idle"
  /\ begun < MaxMails
  /\ begun' = begun + 1
  /\ job' = [job EXCEPT ![j] =
               [NoJob EXCEPT !.stage = "fetch", !.kind = "mail",
                             !.seen = invoice, !.nth = begun + 1]]
  /\ UNCHANGED <<invoice, edits, late, pdf, mailed, logo>>

DownloadBegins(j) ==
  /\ job[j].stage = "idle"
  /\ job' = [job EXCEPT ![j] = [NoJob EXCEPT !.stage = "fetch",
                                             !.seen = invoice]]
  /\ UNCHANGED <<invoice, edits, late, pdf, begun, mailed, logo>>

\* The stored PDF is preferred, so that past documents keep their logo.
Stored(j) == job[j].seen.linked /\ pdf # Nothing

FetchPdf(j) ==
  /\ job[j].stage = "fetch"
  /\ IF Stored(j) THEN Holding(j, pdf) ELSE Move(j, "brand")
  /\ UNCHANGED <<invoice, edits, late, pdf, begun, mailed, logo>>

GetEffectiveBranding(j) ==
  /\ job[j].stage = "brand"
  /\ job' = [job EXCEPT ![j].stage = "logo",
       ![j].page = [version |-> job[j].seen.version, logo |-> logo]]
  /\ UNCHANGED <<invoice, edits, late, pdf, begun, mailed, logo>>

\* Slip: the preview of a draft is stored like any other PDF.
AlwaysPersisted(j) == TRUE

Persisted(j) ==
  job[j].kind = "mail" \/ job[j].seen.linked \/ job[j].seen.status # "DRAFT"

\* Between the look at the row and the look at the store the logo may have
\* been replaced and its image erased: it is left out.
Image(k) == IF k = logo THEN {k} ELSE {k, Nothing}

RenderPdf(j) ==
  /\ job[j].stage = "logo"
  /\ \E k \in Image(job[j].page.logo):
       LET page == [job[j].page EXCEPT !.logo = k] IN
       IF Persisted(j)
         THEN job' = [job EXCEPT ![j].stage = "put", ![j].page = page]
         ELSE Holding(j, page)
  /\ UNCHANGED <<invoice, edits, late, pdf, begun, mailed, logo>>

UploadedPdf(j) == pdf' = job[j].page

\* A failed upload, which may have reached the store, fails the request.
StorePdf(j) ==
  /\ job[j].stage = "put"
  /\ \/ /\ UploadedPdf(j)
        /\ IF job[j].seen.linked THEN Holding(j, job[j].page)
                                 ELSE Move(j, "link")
     \/ /\ pdf' \in {pdf, job[j].page}
        /\ Ended(j)
  /\ UNCHANGED <<invoice, edits, late, begun, mailed, logo>>

LinkPdf(j) ==
  /\ job[j].stage = "link"
  /\ invoice' = [invoice EXCEPT !.linked = TRUE]
  /\ Holding(j, job[j].page)
  /\ UNCHANGED <<edits, late, pdf, begun, mailed, logo>>

SendEmail(j) ==
  /\ job[j].stage = "send"
  /\ \/ /\ mailed' = mailed \cup {[page |-> job[j].page, nth |-> job[j].nth,
                                   seen |-> job[j].seen]}
        /\ Move(j, "issue")
     \/ Ended(j) /\ UNCHANGED mailed
  /\ UNCHANGED <<invoice, edits, late, pdf, begun, logo>>

MarkSent(j) ==
  /\ job[j].stage = "issue"
  /\ invoice' = IF job[j].seen.status = "DRAFT"
                THEN [invoice EXCEPT !.status = "SENT"] ELSE invoice
  /\ Ended(j)
  /\ UNCHANGED <<edits, late, pdf, begun, mailed, logo>>

-----------------------------------------------------------------------------
(* What the rest of the system does to the row. *)

EditReads ==
  /\ invoice.status = "DRAFT"
  /\ invoice.version + edits < MaxVersion
  /\ edits' = edits + 1
  /\ UNCHANGED <<invoice, late, pdf, job, begun, mailed, logo>>

EditWrites ==
  /\ edits > 0
  /\ edits' = edits - 1
  /\ invoice' = [invoice EXCEPT !.version = @ + 1]
  /\ late' = (late \/ invoice.status # "DRAFT")
  /\ UNCHANGED <<pdf, job, begun, mailed, logo>>

CancelInvoice ==
  /\ invoice.status # "CANCELLED"
  /\ invoice' = [invoice EXCEPT !.status = "CANCELLED"]
  /\ UNCHANGED <<edits, late, pdf, job, begun, mailed, logo>>

\* An upload, a removal or an inherited change of the logo (StoredLogos).
ChangeLogo ==
  /\ logo' \in Logos \cup {Nothing}
  /\ UNCHANGED <<invoice, edits, late, pdf, job, begun, mailed>>

Next ==
  \/ \E j \in Jobs:
       \/ DeliveryBegins(j)
       \/ DownloadBegins(j)
       \/ FetchPdf(j)
       \/ GetEffectiveBranding(j)
       \/ RenderPdf(j)
       \/ StorePdf(j)
       \/ LinkPdf(j)
       \/ SendEmail(j)
       \/ MarkSent(j)
  \/ EditReads
  \/ EditWrites
  \/ CancelInvoice
  \/ ChangeLogo

Spec == Init /\ [][Next]_vars

-----------------------------------------------------------------------------
(* Properties. *)

\* Every variable holds a value of its kind.
TypeOK ==
  /\ logo \in Logos \cup {Nothing}
  /\ invoice \in Invoice
  /\ pdf \in Page \cup {Nothing}
  /\ job \in [Jobs -> Job]
  /\ begun \in Nat
  /\ mailed \subseteq [page: Page, nth: Nat, seen: Invoice]
  /\ edits \in Nat /\ invoice.version + edits <= MaxVersion
  /\ late \in BOOLEAN

\* "Keep historical PDFs stable once stored": nothing that is stored for an
\* invoice is ever replaced by something else.
StoredPdfIsStable == [][pdf # Nothing => pdf' = pdf]_vars

\* An invoice that says it has a PDF has one, whichever upload fails.
LinkedPdfIsThere == invoice.linked => pdf # Nothing

\* The first delivery of a draft attaches the lines it read, whatever was
\* downloaded, edited or cancelled before or meanwhile; that of an invoice
\* cancelled while the mail was queued may attach older ones only if an edit was
\* written over the cancelled invoice.  (A later delivery may attach the PDF
\* that an earlier, failed one stored before an edit.)
FirstMailIsExact ==
  \A m \in mailed: m.nth = 1 /\ m.page.version # m.seen.version =>
    m.seen.status = "CANCELLED" /\ late

-----------------------------------------------------------------------------
(* The inductive invariant. *)

\* What a job knows.  Once the invoice it saw was no draft only a late edit
\* changes the lines; one that saw a linked PDF does not render.
JobOK(q) ==
  /\ q.stage = "idle" => q = NoJob
  /\ q.kind = "mail" => q.nth \in 1..begun
  /\ q.stage \in {"send", "issue"} => q.kind = "mail"
  /\ q.seen.status # "DRAFT" =>
       invoice.status # "DRAFT" /\ (late \/ invoice.version = q.seen.version)
  /\ q.seen.linked => pdf # Nothing /\ q.stage \in {"fetch", "send", "issue"}
  /\ q.stage \in {"logo", "put", "link"} => q.page.version = q.seen.version
  /\ q.stage \in {"put", "link"} /\ q.kind = "download" => q.seen.status # "DRAFT"
  /\ q.stage = "link" => pdf # Nothing

\* The PDF, if there is one, shows the lines that the invoice had when it
\* stopped being a draft.
PdfIsOfIssue ==
  invoice.status # "DRAFT" /\ (late \/ pdf.version = invoice.version)

\* A page that a first delivery may attach.
Right(page, seen) ==
  page.version # seen.version => seen.status = "CANCELLED" /\ late

\* The first delivery: later ones see the invoice as it did or after it was no
\* draft; before it only downloads of a cancelled invoice stored a PDF, and one
\* that it has seen linked is still of those lines.
FirstOK(j) ==
  job[j].kind = "mail" /\ job[j].nth = 1 =>
    /\ job[j].seen.status # "SENT"
    /\ \A g \in Jobs: job[g].kind = "mail" =>
         /\ job[g].nth = 1 => g = j
         /\ job[j].seen.status # "DRAFT" => job[g].seen.status # "DRAFT"
    /\ job[j].stage = "fetch" /\ job[j].seen.linked =>
         job[j].seen.status # "DRAFT" /\ PdfIsOfIssue
    /\ job[j].stage = "send" => Right(job[j].page, job[j].seen)

IInv ==
  /\ TypeOK
  /\ LinkedPdfIsThere
  /\ \A j \in Jobs: JobOK(job[j]) /\ FirstOK(j)
  /\ begun = 0 => invoice.status # "SENT" /\ (pdf # Nothing => PdfIsOfIssue)
  /\ FirstMailIsExact

=============================================================================
