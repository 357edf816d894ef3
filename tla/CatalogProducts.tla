--------------------------- MODULE CatalogProducts --------------------------
(***************************************************************************)
(* The product catalogue (apps/api/src/modules/catalog): concurrent calls  *)
(* of CatalogProductsService on products kept behind the port              *)
(* CatalogProductRepository.  An update loads the product, computes the    *)
(* next one with the rules of domain/product.ts and hands it to the        *)
(* repository, which replaces the row if its version is still the expected *)
(* one.  The repository is external: its contract is the port's comment.   *)
(***************************************************************************)
EXTENDS DecimalMoney

CONSTANTS Calls,          \* calls in progress at the same time
          Products,       \* product identifiers (uuid)
          ModelCodes, CodeKey,  \* model codes and the key each is compared by
          Amounts,        \* texts callers give for an amount
          NoProduct, NoCode,
          MaxProductVersion,  \* bound on the versions of a product
          MaxTime         \* bound on the clock

ManageProducts == "catalog.products.manage"

VARIABLES product,   \* the rows of the repository
          call       \* the locals of each call

catalogVars == <<product, call>>

\* One currency stands for all the codes.
Price == [amount : Text, currency : {"null", "code"}]

\* Left out: the category and the name, replaced as a whole, and createdAt, never changed.
Product == [status : {"none", "draft", "published", "archived"},
            code : ModelCodes \union {NoCode}, price : Price,
            version : Nat, updatedAt : Nat]

NoPrice == [amount |-> NoText, currency |-> "null"]
AbsentProduct == [status |-> "none", code |-> NoCode, price |-> NoPrice,
                  version |-> 0, updatedAt |-> 0]

\* base is the product that was loaded.
Call == [phase : {"idle", "loading", "creating", "replacing"},
         op : {"none", "create", "update", "change-status"},
         product : Products \union {NoProduct}, base : Product]

NoCall == [phase |-> "idle", op |-> "none", product |-> NoProduct, base |-> AbsentProduct]

InitCatalog ==
  /\ product = [p \in Products |-> AbsentProduct]
  /\ call = [c \in Calls |-> NoCall]

-----------------------------------------------------------------------------
(* The rules of the domain.                                                *)

\* What a caller gives for an amount and for a currency: nothing, null, or a text, which
\* may be the code of a currency.
GivenAmount == [given : {"undefined", "null"}] \union [given : {"text"}, amount : Amounts]
GivenCurrency == [given : {"undefined", "null"}] \union [given : {"text"}, isCode : BOOLEAN]

Present(g) == g.given = "text"

\* normalizePrice: both or none, and money(.., { maxScale: 6, allowNegative: false }).
PriceAccepted(a, c) ==
  /\ Present(a) = Present(c)
  /\ Present(a) => MoneyAccepts(a.amount, 6, FALSE, c.isCode)

NormalizedPrice(a, c) ==
  IF Present(a) THEN [amount |-> Normalized(a.amount), currency |-> "code"] ELSE NoPrice

\* What normalizePrice makes of the pairs it accepts.
NewPrices ==
  {NormalizedPrice(p[1], p[2]) :
     p \in {q \in GivenAmount \X GivenCurrency : PriceAccepted(q[1], q[2])}}

\* createProduct with the id, code and status of the caller; the draft is the default.
Created(code, status, price, now) ==
  [status |-> status, code |-> code, price |-> price,
   version |-> 1, updatedAt |-> now]

AnyTime(p, now) == now \in Nat   \* mutant: the clock may go back

\* normalizeMutationTime: the clock is that of the process.
MutationTimeAccepted(p, now) == now >= p.updatedAt

\* And assertMutable.
Mutable(p, now) == p.status # "archived" /\ MutationTimeAccepted(p, now)

\* isAllowedTransition, and not to the same status.
Transitions == {<<"draft", "published">>, <<"draft", "archived">>,
                <<"published", "draft">>, <<"published", "archived">>}

EachHalf(price, a, c) ==   \* mutant: each half is updated on its own
  IF ~(Present(a) => ParseAccepts(a.amount, 6, FALSE)) \/ ~(Present(c) => c.isCode) THEN {}
  ELSE {[amount |-> IF a.given = "undefined" THEN price.amount
                    ELSE IF Present(a) THEN Normalized(a.amount) ELSE NoText,
         currency |-> IF c.given = "undefined" THEN price.currency
                      ELSE IF Present(c) THEN "code" ELSE "null"]}

\* The price an update leaves, if it is accepted: the halves are given together or kept.
UpdatedPrice(price, a, c) ==
  LET kept == a.given = "undefined" IN
  IF kept # (c.given = "undefined") \/ ~PriceAccepted(a, c) THEN {}
  ELSE {IF kept THEN price ELSE NormalizedPrice(a, c)}

\* updateProduct.
Updated(p, code, price, now) ==
  [p EXCEPT !.code = code, !.price = price, !.version = @ + 1, !.updatedAt = now]

\* changeProductPublicationStatus.
WithStatus(p, status, now) ==
  [p EXCEPT !.status = status, !.version = @ + 1, !.updatedAt = now]

-----------------------------------------------------------------------------
(* The calls.                                                              *)

Goto(c, l) ==
  /\ call' = [call EXCEPT ![c] = l]
  /\ UNCHANGED product

\* The call is answered, or fails.
Return(c) == Goto(c, NoCall)

\* requireProductsManage.
MayManage(subject) == ManageProducts \in subject

\* The product gets a fresh uuid.  The arguments of a call are chosen where they reach
\* the repository: what is made of them depends on the loaded product only.
BeginCreate(c, subject) ==
  /\ call[c].phase = "idle" /\ MayManage(subject)
  /\ \E p \in Products :
       /\ product[p].version = 0 /\ \A d \in Calls : call[d].product # p
       /\ Goto(c, [NoCall EXCEPT !.phase = "creating", !.op = "create", !.product = p])

BeginChange(c, subject) ==
  /\ call[c].phase = "idle" /\ MayManage(subject)
  /\ \E p \in Products, op \in {"update", "change-status"} :
       Goto(c, [NoCall EXCEPT !.phase = "loading", !.op = op, !.product = p])

\* loadRequired; the expected version must be the loaded one.
Load(c) ==
  LET p == product[call[c].product] IN
  /\ call[c].phase = "loading"
  /\ p.version > 0 /\ p.version < MaxProductVersion
  /\ Goto(c, [call[c] EXCEPT !.phase = "replacing", !.base = p])

\* What updateProduct and changeProductPublicationStatus can make of the loaded product,
\* on any reading of the clock.
Changes(l, now) ==
  IF l.op = "update"
  THEN {Updated(l.base, code, price, now) :
          code \in ModelCodes,
          price \in UNION {UpdatedPrice(l.base.price, a, u) :
                            a \in GivenAmount, u \in GivenCurrency}}
  ELSE {WithStatus(l.base, t[2], now) : t \in {u \in Transitions : u[1] = l.base.status}}

-----------------------------------------------------------------------------
(* The repository.                                                         *)

\* productModelCodeComparisonKey.
ComparisonKey(code) == CodeKey[code]

\* The key is unique among the products.
Duplicate(p, next) ==
  \E q \in Products \ {p} :
    product[q].version > 0 /\ ComparisonKey(product[q].code) = ComparisonKey(next.code)

Store(c, next) ==
  /\ product' = [product EXCEPT ![call[c].product] = next]
  /\ call' = [call EXCEPT ![c] = NoCall]

\* createProduct (archived is refused) and repository.create.
Create(c) ==
  /\ call[c].phase = "creating"
  /\ \E code \in ModelCodes, status \in {"draft", "published"}, price \in NewPrices,
        now \in 0..MaxTime :
       LET next == Created(code, status, price, now) IN
       /\ ~Duplicate(call[c].product, next)
       /\ Store(c, next)

\* replaceIfVersionMatches, an atomic compare-and-swap.
Replace(c) ==
  LET l == call[c] IN
  /\ l.phase = "replacing"
  /\ product[l.product].version = l.base.version
  /\ \E now \in 0..MaxTime :
       /\ Mutable(l.base, now)
       /\ \E next \in Changes(l, now) : ~Duplicate(l.product, next) /\ Store(c, next)

\* loadRequired: no row has the id.
NotFound(c) ==
  call[c].phase = "loading" /\ product[call[c].product].version = 0 /\ Return(c)

\* A category, text, status, uuid or Date the domain refuses.
Invalid(c) == call[c].phase \in {"creating", "replacing"} /\ Return(c)

\* version-conflict and duplicate-model-code, as the repository reports them.
Conflict(c) ==
  LET l == call[c] IN
  /\ \/ l.phase = "replacing" /\ product[l.product].version # l.base.version
     \/ /\ l.phase \in {"creating", "replacing"} /\ l.op # "change-status"
        /\ \E code \in ModelCodes : Duplicate(l.product, [l.base EXCEPT !.code = code])
  /\ Return(c)

\* An expected version that is not the loaded one, a price, a transition or a time the
\* domain refuses, a failing repository, or the process dies.
Fail(c) == call[c].phase # "idle" /\ Return(c)

Step(c) ==
  Load(c) \/ Create(c) \/ Replace(c) \/ NotFound(c) \/ Invalid(c) \/ Conflict(c) \/ Fail(c)

-----------------------------------------------------------------------------
(* Properties.                                                             *)

\* Every variable has its type.
CatalogTypeOK ==
  /\ product \in [Products -> Product]
  /\ call \in [Calls -> Call]

\* A product changes by one version at a time, from the very row the change was computed
\* from, never back in time, and never once it is archived (product.ts assertMutable and
\* normalizeMutationTime judge a row loaded before the write, on a clock of their own).
ProductHistoryIsLinear ==
  [][\A p \in Products : product[p].version > 0 /\ product'[p] # product[p] =>
       /\ product[p].status # "archived"
       /\ product'[p].version = product[p].version + 1
       /\ product'[p].updatedAt >= product[p].updatedAt
       /\ \E c \in Calls : call[c].product = p /\ call[c].base = product[p]]_catalogVars

\* A price has both halves or none, and its amount is one money() gives back unchanged,
\* whatever mix of absent, null and new halves a sequence of creations and updates gives
\* (product.ts updateProduct and normalizePrice, decimal.ts parseDecimal).
PriceIsMoney ==
  \A p \in Products :
    LET price == product[p].price IN
    /\ (price.amount = NoText) = (price.currency = "null")
    /\ price # NoPrice => /\ MoneyAccepts(price.amount, 6, FALSE, TRUE)
                          /\ Normalized(price.amount) = price.amount
=============================================================================
