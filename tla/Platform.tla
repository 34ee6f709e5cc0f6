------------------------------ MODULE Platform ------------------------------
(***************************************************************************)
(* The parts of the platform that share no state: the gateway connections, *)
(* the images in the object store, the PDF of an invoice, PayPal's         *)
(* application token, the catalogue and the delivery of an event.  A       *)
(* behaviour belongs to one `part`; the others rest in their initial       *)
(* states, so that the states of an instance are the sum, and not the      *)
(* product, of the parts'.                                                 *)
(***************************************************************************)
EXTENDS GatewayInvariant

CONSTANTS
  Handlers, Keys, MaxOffers,
  Logos, Jobs, MaxVersion, MaxMails,
  Callers, Lives, Margin, Floor, LastTick,
  Products, Skus, Customers, Documents, Names,
  MaxSends

\* Ids are not null, a PDF is not null, rows of different tables have different
\* ids, and what is taken for the life of a token is no longer than the margin
\* within which a cached token is not used.
ASSUME PlatformAssumption ==
  /\ Nothing \notin Keys \cup {"organization", "admin", "avatar"}
  /\ MaxVersion \in Nat \ {0}
  /\ Nothing \notin [version: 1..MaxVersion, logo: Logos \cup {Nothing}]
  /\ Lives \subseteq Nat
  /\ Margin \in Nat /\ Floor \in 0..Margin
  /\ Nothing \notin Products \cup Skus \cup Customers \cup Documents \cup Names
  /\ Products \cap Documents = {}
  /\ Nothing \notin Handlers
  /\ MaxSends \in Nat

VARIABLES
  part,
  key, object, home, presigned, offered, hand,
  logo, invoice, edits, late, pdf, job, begun, mailed,
  clock, cache, call,
  product, customer, document, category, task, crossed,
  row, lock, claimed, hook, settled, answer, mail

Images == INSTANCE StoredLogos

Paper == INSTANCE InvoicePdf

AppToken == INSTANCE PayPalAppToken WITH now <- clock, MaxTime <- LastTick

Shop == INSTANCE Catalogue WITH req <- task

Delivery == INSTANCE WebhookDelivery

imagesVars == <<key, object, home, presigned, offered, hand>>

pdfVars == <<logo, invoice, edits, late, pdf, job, begun, mailed>>

tokenVars == <<clock, cache, call>>

catalogueVars == <<product, customer, document, category, task, crossed>>

deliveryVars == <<row, lock, claimed, hook, settled, answer, mail>>

Parts == {"gateway", "images", "pdf", "token", "catalogue", "delivery"}

PlatformInit ==
  /\ part \in Parts
  /\ Init
  /\ Images!Init
  /\ Paper!Init
  /\ AppToken!Init
  /\ Shop!Init
  /\ Delivery!Init

GatewayNext ==
  /\ part = "gateway"
  /\ Next
  /\ UNCHANGED <<part, imagesVars, pdfVars, tokenVars, catalogueVars, deliveryVars>>

ImagesNext ==
  /\ part = "images"
  /\ Images!Next
  /\ UNCHANGED <<part, vars, pdfVars, tokenVars, catalogueVars, deliveryVars>>

PdfNext ==
  /\ part = "pdf"
  /\ Paper!Next
  /\ UNCHANGED <<part, vars, imagesVars, tokenVars, catalogueVars, deliveryVars>>

TokenNext ==
  /\ part = "token"
  /\ AppToken!Next
  /\ UNCHANGED <<part, vars, imagesVars, pdfVars, catalogueVars, deliveryVars>>

CatalogueNext ==
  /\ part = "catalogue"
  /\ Shop!Next
  /\ UNCHANGED <<part, vars, imagesVars, pdfVars, tokenVars, deliveryVars>>

DeliveryNext ==
  /\ part = "delivery"
  /\ Delivery!Next
  /\ UNCHANGED <<part, vars, imagesVars, pdfVars, tokenVars, catalogueVars>>

PlatformNext ==
  \/ GatewayNext
  \/ ImagesNext
  \/ PdfNext
  \/ TokenNext
  \/ CatalogueNext
  \/ DeliveryNext

PlatformVars ==
  <<part, vars, imagesVars, pdfVars, tokenVars, catalogueVars, deliveryVars>>

PlatformSpec == PlatformInit /\ [][PlatformNext]_PlatformVars

-----------------------------------------------------------------------------
(* Properties of the parts, under names of their own. *)

\* StoredLogos: a row names an image that the store holds, repeated
\* confirmations of a key apart, which no branding logo can meet.
LogosAreThere ==
  /\ Images!LogosAreThere
  /\ Images!BrandingLogoIsThere

\* InvoicePdf: an invoice that says it has a PDF has one, and the first delivery
\* attaches the lines that it read, unless the invoice was cancelled before the
\* delivery and an edit written after the cancellation.
FirstMailIsExact ==
  /\ Paper!LinkedPdfIsThere
  /\ Paper!FirstMailIsExact

\* PayPalAppToken: a token taken from the cache outlasts the margin.
CachedTokenLasts == AppToken!CachedTokenLasts

\* Catalogue: invoices refer to customers and products that exist, racing
\* expenses leave one category of a name, and only requests that overlapped
\* leave a shared SKU or a line that has lost its product.
CatalogueHolds ==
  /\ Shop!DocumentsReferToRows
  /\ Shop!OneCategoryPerName
  /\ Shop!SharedSkusWereCrossed
  /\ Shop!LostProductsWereCrossed

\* WebhookDelivery: an event is acknowledged unsettled only for another one.
AcknowledgedIsSettled == Delivery!AcknowledgedIsSettled

\* WebhookDelivery: one receipt, however often the payment is reported, and
\* one that counts as sent was mailed.
OneReceipt ==
  /\ Delivery!ReceiptMailedOnce
  /\ Delivery!ReceiptIsMailed

=============================================================================
