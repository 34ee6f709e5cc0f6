----------------------------- MODULE Catalogue -----------------------------
(***************************************************************************)
(* Products, customers and expense categories of one organization, and the *)
(* invoices that refer to them.  Every operation looks first and writes    *)
(* later; what holds between the two is only what the database enforces:   *)
(* an invoice's customer cannot be deleted, a deleted product disappears   *)
(* from the invoice's lines, a category's name is unique, a SKU is not.    *)
(***************************************************************************)
EXTENDS Naturals, FiniteSets

CONSTANTS
  Requests,    \* requests that may run at the same time
  Products,    \* ids of products
  Skus,        \* stock keeping units
  Customers,   \* ids of customers
  Documents,   \* ids of invoices, each with one line
  Names,       \* names of expense categories
  Nothing      \* null

VARIABLES
  product,    \* products: whether stored, with which SKU
  customer,   \* the customers stored
  document,   \* invoices: whether stored, for whom, with which product
  category,   \* how many categories are stored under each name
  req,        \* the requests under way
  crossed     \* pairs written across each other's check

vars == <<product, customer, document, category, req, crossed>>

Ids == Products \cup Customers \cup Documents \cup Names

ProductRow == [known: BOOLEAN, stored: BOOLEAN, sku: Skus \cup {Nothing}]
DocumentRow == [stored: BOOLEAN, customer: Customers \cup {Nothing},
                product: Products \cup {Nothing},
                drawn: Products \cup {Nothing}]

\* `subject` is the row an operation works on, `since` what others wrote
\* since the operation looked.
Stages == {"idle", "insertProduct", "rewriteProduct", "countProduct",
           "removeProduct", "writeInvoice", "countCustomer", "removeCustomer",
           "createCategory", "createExpense"}
Request == [stage: Stages, subject: Ids \cup {Nothing},
            other: Ids \cup {Nothing}, sku: Skus \cup {Nothing},
            since: SUBSET Ids]

Idle == [stage |-> "idle", subject |-> Nothing, other |-> Nothing,
         sku |-> Nothing, since |-> {}]

Init ==
  /\ product = [p \in Products |-> [known |-> FALSE, stored |-> FALSE,
                                    sku |-> Nothing]]
  /\ customer = Customers
  /\ document = [d \in Documents |->
       [stored |-> FALSE, customer |-> Nothing, product |-> Nothing,
        drawn |-> Nothing]]
  /\ category = [n \in Names |-> 0]
  /\ req = [r \in Requests |-> Idle]
  /\ crossed = {}

StoredProducts == {p \in Products: product[p].stored}
StoredDocuments == {d \in Documents: document[d].stored}
DocumentsOf(c) == {d \in StoredDocuments: document[d].customer = c}
DocumentsWith(p) == {d \in StoredDocuments: document[d].product = p}

\* Ids are bounded: one must be left for each request about to insert a row.
Room(stage, unused) ==
  Cardinality({r \in Requests: req[r].stage = stage}) < Cardinality(unused)

\* A request looks, and remembers what for.
Look(r, stage, subject, other, sku) ==
  /\ req[r].stage = "idle"
  /\ req' = [req EXCEPT ![r] = [stage |-> stage, subject |-> subject,
               other |-> other, sku |-> sku, since |-> {}]]
  /\ UNCHANGED <<product, customer, document, category, crossed>>

\* The checks that a later write relies on.
Relying == {"insertProduct", "rewriteProduct", "removeProduct"}

\* A request ends; whoever relies on a check has been crossed by what it wrote.
Ended(r, written) ==
  req' = [q \in Requests |->
            IF q = r THEN Idle
            ELSE IF req[q].stage \in Relying
              THEN [req[q] EXCEPT !.since = @ \cup written]
              ELSE req[q]]

\* What is known of a row is forgotten when it is written or deleted again.
CrossedBut(ids) == {c \in crossed: c \cap ids = {}}

Fails(r) ==
  /\ Ended(r, {})
  /\ UNCHANGED <<product, customer, document, category, crossed>>

-----------------------------------------------------------------------------
(* Products. *)

\* Slip: the search is forgotten.
NeverTaken(sku, p) == FALSE

\* findProductByOrganizationAndSku.
Taken(sku, p) == \E q \in StoredProducts \ {p}: product[q].sku = sku

CreateProductChecks(r, sku) ==
  /\ Room("insertProduct", {p \in Products: ~product[p].known})
  /\ sku # Nothing => ~Taken(sku, Nothing)
  /\ Look(r, "insertProduct", Nothing, Nothing, sku)

CreateProduct(r) ==
  /\ req[r].stage = "insertProduct"
  /\ \E p \in Products:
       /\ ~product[p].known
       /\ product' = [product EXCEPT ![p] =
            [known |-> TRUE, stored |-> TRUE, sku |-> req[r].sku]]
       /\ crossed' = crossed \cup {{p, q}: q \in req[r].since \cap Products}
       /\ Ended(r, {p})
  /\ UNCHANGED <<customer, document, category>>

UpdateProductChecks(r, p, sku) ==
  /\ product[p].stored
  /\ sku # Nothing => ~Taken(sku, p)
  /\ Look(r, "rewriteProduct", p, Nothing, sku)

UpdateProduct(r) ==
  LET p == req[r].subject IN
  /\ req[r].stage = "rewriteProduct"
  /\ \/ /\ product[p].stored
        /\ product' = [product EXCEPT ![p].sku = req[r].sku]
        /\ crossed' = CrossedBut({p}) \cup
                        {{p, q}: q \in req[r].since \cap StoredProducts}
        /\ Ended(r, {p})
        /\ UNCHANGED <<customer, document, category>>
     \/ ~product[p].stored /\ Fails(r)

DeleteProductReads(r, p) ==
  product[p].stored /\ Look(r, "countProduct", p, Nothing, Nothing)

UsesOf(p) == DocumentsWith(p)

CountProductDocuments(r) ==
  /\ req[r].stage = "countProduct"
  /\ IF UsesOf(req[r].subject) = {}
       THEN req' = [req EXCEPT ![r].stage = "removeProduct", ![r].since = {}]
       ELSE Ended(r, {})
  /\ UNCHANGED <<product, customer, document, category, crossed>>

\* ON DELETE SET NULL of the invoices' lines.
Unlinked(p) ==
  [d \in Documents |-> IF document[d].product = p
                       THEN [document[d] EXCEPT !.product = Nothing]
                       ELSE document[d]]

DeleteProduct(r) ==
  LET p == req[r].subject IN
  /\ req[r].stage = "removeProduct"
  /\ \/ /\ product[p].stored
        /\ product' = [product EXCEPT ![p].stored = FALSE]
        /\ document' = Unlinked(p)
        /\ crossed' = CrossedBut({p}) \cup
                        {{p, d}: d \in req[r].since \cap StoredDocuments}
        /\ Ended(r, {})
        /\ UNCHANGED <<customer, category>>
     \/ ~product[p].stored /\ Fails(r)

-----------------------------------------------------------------------------
(* Invoices and customers. *)

\* The customer and the product are read before the invoice is written.
CreateInvoiceReads(r, c, p) ==
  /\ Room("writeInvoice", {d \in Documents: document[d].customer = Nothing})
  /\ c \in customer
  /\ p \in StoredProducts \cup {Nothing}
  /\ Look(r, "writeInvoice", c, p, Nothing)

\* Foreign keys: both must still be there.
CreateInvoice(r) ==
  LET c == req[r].subject
      p == req[r].other
  IN
  /\ req[r].stage = "writeInvoice"
  /\ IF c \in customer /\ p \in StoredProducts \cup {Nothing}
       THEN \E d \in Documents:
              /\ document[d].customer = Nothing
              /\ document' = [document EXCEPT ![d] =
                   [stored |-> TRUE, customer |-> c, product |-> p,
                    drawn |-> p]]
              /\ Ended(r, {d})
              /\ UNCHANGED <<product, customer, category, crossed>>
       ELSE Fails(r)

\* deleteInvoice of a draft.
DeleteInvoice(d) ==
  /\ document[d].stored
  /\ document' = [document EXCEPT ![d] = [@ EXCEPT !.stored = FALSE,
                                                    !.product = Nothing]]
  /\ crossed' = CrossedBut({d})
  /\ UNCHANGED <<product, customer, category, req>>

DeleteCustomerReads(r, c) ==
  c \in customer /\ Look(r, "countCustomer", c, Nothing, Nothing)

CountCustomerDocuments(r) ==
  /\ req[r].stage = "countCustomer"
  /\ IF DocumentsOf(req[r].subject) = {}
       THEN req' = [req EXCEPT ![r].stage = "removeCustomer"]
       ELSE Ended(r, {})
  /\ UNCHANGED <<product, customer, document, category, crossed>>

\* ON DELETE RESTRICT of the invoices.
Deletable(c) == DocumentsOf(c) = {}

DeleteCustomer(r) ==
  LET c == req[r].subject IN
  /\ req[r].stage = "removeCustomer"
  /\ \/ /\ Deletable(c)
        /\ customer' = customer \ {c}
        /\ Ended(r, {})
        /\ UNCHANGED <<product, document, category, crossed>>
     \/ ~Deletable(c) /\ Fails(r)

-----------------------------------------------------------------------------
(* Expenses. *)

FindCategory(r, n) ==
  Look(r, IF category[n] = 0 THEN "createCategory" ELSE "createExpense", n,
       Nothing, Nothing)

\* The unique index of organization and name.
FreeName(n) == category[n] = 0

\* Of two requests that miss the category the second one fails, and records
\* no expense.
CreateCategory(r) ==
  LET n == req[r].subject IN
  /\ req[r].stage = "createCategory"
  /\ \/ /\ FreeName(n)
        /\ category' = [category EXCEPT ![n] = @ + 1]
        /\ req' = [req EXCEPT ![r].stage = "createExpense"]
        /\ UNCHANGED <<product, customer, document, crossed>>
     \/ ~FreeName(n) /\ Fails(r)

CreateExpense(r) ==
  req[r].stage = "createExpense" /\ Fails(r)

-----------------------------------------------------------------------------
Step(r) ==
  \/ \E k \in Skus \cup {Nothing}: CreateProductChecks(r, k)
  \/ CreateProduct(r)
  \/ \E p \in Products, k \in Skus \cup {Nothing}: UpdateProductChecks(r, p, k)
  \/ UpdateProduct(r)
  \/ \E p \in Products: DeleteProductReads(r, p)
  \/ CountProductDocuments(r)
  \/ DeleteProduct(r)
  \/ \E c \in Customers, p \in Products \cup {Nothing}:
       CreateInvoiceReads(r, c, p)
  \/ CreateInvoice(r)
  \/ \E c \in Customers: DeleteCustomerReads(r, c)
  \/ CountCustomerDocuments(r)
  \/ DeleteCustomer(r)
  \/ \E n \in Names: FindCategory(r, n)
  \/ CreateCategory(r)
  \/ CreateExpense(r)

Next ==
  \/ \E r \in Requests: Step(r)
  \/ \E d \in Documents: DeleteInvoice(d)

Spec == Init /\ [][Next]_vars

-----------------------------------------------------------------------------
(* Properties. *)

\* Every variable holds a value of its kind.
TypeOK ==
  /\ product \in [Products -> ProductRow]
  /\ customer \subseteq Customers
  /\ document \in [Documents -> DocumentRow]
  /\ category \in [Names -> Nat]
  /\ req \in [Requests -> Request]
  /\ crossed \subseteq SUBSET Ids

\* Whatever is deleted while an invoice is being written, a stored invoice
\* refers to a customer that exists and to a product that exists or to none.
DocumentsReferToRows ==
  \A d \in StoredDocuments:
    /\ document[d].customer \in customer
    /\ document[d].product \in StoredProducts \cup {Nothing}

\* "A catalog item with this SKU already exists in the organization": two
\* products never share a SKU.
SkusAreUnique ==
  \A p, q \in StoredProducts:
    p # q /\ product[p].sku = product[q].sku => product[p].sku = Nothing

\* What of it is true: products share a SKU only when one of them was written
\* between the other's check and its write.
SharedSkusWereCrossed ==
  \A p, q \in StoredProducts:
    p # q /\ product[p].sku = product[q].sku /\ product[p].sku # Nothing
      => {p, q} \in crossed

\* A line of a stored invoice loses its product only when the invoice was
\* written between the count of the product's uses and its deletion.
LostProductsWereCrossed ==
  \A d \in StoredDocuments:
    document[d].product # document[d].drawn =>
      {document[d].drawn, d} \in crossed

\* Two requests that miss the same category at the same time leave one.
OneCategoryPerName == \A n \in Names: category[n] <= 1

-----------------------------------------------------------------------------
(* The inductive invariant. *)

\* Which rows a request works on.
SubjectOK(q) ==
  /\ q.stage = "insertProduct" => q.subject = Nothing
  /\ q.stage \in {"rewriteProduct", "countProduct", "removeProduct"} =>
       q.subject \in Products
  /\ q.stage \in {"writeInvoice", "countCustomer", "removeCustomer"} =>
       q.subject \in Customers
  /\ q.stage = "writeInvoice" => q.other \in Products \cup {Nothing}
  /\ q.stage \in {"createCategory", "createExpense"} => q.subject \in Names

\* A request that looked for something and found none still finds only what
\* was written since.
SinceOK(q) ==
  /\ q.stage \in {"insertProduct", "rewriteProduct"} /\ q.sku # Nothing =>
       \A p \in StoredProducts \ {q.subject}:
         product[p].sku = q.sku => p \in q.since
  /\ q.stage = "removeProduct" => DocumentsWith(q.subject) \subseteq q.since

\* A line names the product it was written with, or none any more because that
\* product is gone for good.
LineOK(d) ==
  d.product # d.drawn =>
    /\ d.product = Nothing
    /\ product[d.drawn].known /\ ~product[d.drawn].stored

IInv ==
  /\ TypeOK
  /\ \A p \in StoredProducts: product[p].known
  /\ \A r \in Requests: SubjectOK(req[r]) /\ SinceOK(req[r])
  /\ \A d \in StoredDocuments: LineOK(document[d])
  /\ DocumentsReferToRows
  /\ SharedSkusWereCrossed
  /\ LostProductsWereCrossed
  /\ OneCategoryPerName

=============================================================================
