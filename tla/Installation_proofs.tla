------------------------- MODULE Installation_proofs -------------------------
(***************************************************************************)
(* What holds of Installation for every number of callbacks, installs,     *)
(* installations and failures.                                             *)
(*                                                                         *)
(* The inductive invariant says, beyond the properties themselves, what a  *)
(* call of Complete carries from one remote call to the next: a token that *)
(* is none of nothing, a row that is there once it registers, and, while   *)
(* it waits for its Save, a removal it missed that is still to be sent.    *)
(***************************************************************************)
EXTENDS Installation, TLAPS

\* Past Exchange a call holds a token; past Save its store has a row.
Carried == \A h \in Callbacks :
    /\ call[h].pc \in {"save", "register"} => call[h].token # NoToken
    /\ call[h].pc = "register" => row.state # "none"

\* A removal that a Save may still undo in the row has its shop/redact ahead.
SaveIsDue == \A h \in Callbacks : call[h].pc = "save" /\ ~app => redactDue

\* What ends or is announced was an installation, and so has a number.
Numbered == app \/ redactDue => install # NoToken

IInv == TypeOK /\ Carried /\ SaveIsDue /\ Numbered
          /\ InstalledHasToken /\ SubscribedIsStored /\ DeadRowIsDue

-----------------------------------------------------------------------------
LEMMA InitIInv == Init => IInv
<1>1. SUFFICES ASSUME Init PROVE IInv
    OBVIOUS
<1>2. TypeOK
    <2>1. Idle \in Calls
        BY DEF Idle, Calls, NoToken
    <2>2. row \in Rows /\ call \in [Callbacks -> Calls]
        BY <1>1, <2>1 DEF Init, Rows, NoToken
    <2>3. codes = {} /\ subscribed = {} /\ mail = {}
        BY <1>1 DEF Init
    <2>4. /\ codes \subseteq Codes /\ subscribed \subseteq {Topic[1], Topic[2]}
          /\ mail \subseteq Mails
          /\ \A k \in codes : k.state <= begun /\ k.install <= install
        BY <2>3
    <2>5. begun = 0 /\ cookie = 0 /\ install = 0 /\ faults = 0
        BY <1>1 DEF Init
    <2>6. app \in BOOLEAN /\ redactDue \in BOOLEAN
        BY <1>1 DEF Init
    <2>7. QED BY <2>2, <2>4, <2>5, <2>6 DEF TypeOK
<1>3. Carried /\ SaveIsDue /\ Numbered /\ InstalledHasToken /\ SubscribedIsStored /\ DeadRowIsDue
    BY <1>1 DEF Init, Carried, SaveIsDue, Numbered, InstalledHasToken, SubscribedIsStored,
                DeadRowIsDue, Idle, NoToken
<1>4. QED BY <1>2, <1>3 DEF IInv

\* The code a call can exchange belongs to an installation, and the app is there.
LEMMA ValidIsAlive == ASSUME TypeOK, NEW h \in Callbacks, Valid(h)
                      PROVE  app /\ install # NoToken
    BY DEF TypeOK, Valid, Codes, NoToken

\* Spending a code keeps the codes what they are.
LEMMA UsedKeepsCodes == ASSUME TypeOK, NEW h \in Callbacks
                        PROVE  /\ Used(h) \subseteq Codes
                               /\ \A k \in Used(h) : k.state <= begun /\ k.install <= install
<1>1. \A k \in codes : /\ [k EXCEPT !.used = TRUE] \in Codes
                       /\ [k EXCEPT !.used = TRUE].state = k.state
                       /\ [k EXCEPT !.used = TRUE].install = k.install
    BY DEF TypeOK, Codes
<1>2. QED BY <1>1 DEF TypeOK, Used

-----------------------------------------------------------------------------
(***************************************************************************)
(* The steps of Complete.                                                  *)
(***************************************************************************)
LEMMA CompleteStep == ASSUME IInv, NEW h \in Callbacks, Complete(h)
                      PROVE  IInv'
<1> USE DEF IInv, NoToken
<1>1. CASE Exchange(h)
    <2>1. app /\ install # NoToken
        BY <1>1, ValidIsAlive DEF Exchange
    <2>2. TypeOK'
        BY <1>1, UsedKeepsCodes DEF Exchange, TypeOK, Calls
    <2>3. Carried' /\ SaveIsDue' /\ Numbered'
        BY <1>1, <2>1 DEF Exchange, TypeOK, Calls, Carried, SaveIsDue, Numbered
    <2>4. InstalledHasToken' /\ SubscribedIsStored' /\ DeadRowIsDue'
        BY <1>1 DEF Exchange, InstalledHasToken, SubscribedIsStored, DeadRowIsDue
    <2>5. QED BY <2>2, <2>3, <2>4
<1>2. CASE ExchangeRefused(h)
    BY <1>2 DEF ExchangeRefused, shopify, TypeOK, Calls, Idle, Carried, SaveIsDue, Numbered,
                InstalledHasToken, SubscribedIsStored, DeadRowIsDue
<1>3. CASE ExchangeLost(h)
    <2>1. TypeOK'
        BY <1>3, UsedKeepsCodes DEF ExchangeLost, Fault, TypeOK, Calls, Idle
    <2>2. Carried' /\ SaveIsDue' /\ Numbered'
        BY <1>3 DEF ExchangeLost, TypeOK, Calls, Idle, Carried, SaveIsDue, Numbered
    <2>3. InstalledHasToken' /\ SubscribedIsStored' /\ DeadRowIsDue'
        BY <1>3 DEF ExchangeLost, InstalledHasToken, SubscribedIsStored, DeadRowIsDue
    <2>4. QED BY <2>1, <2>2, <2>3
<1>4. ASSUME call[h].pc = "save", Upsert(h), UNCHANGED shopify
      PROVE  /\ row' \in Rows
             /\ row'.state = "installed"
             /\ InstalledHasToken' /\ SubscribedIsStored' /\ DeadRowIsDue'
    BY <1>4 DEF Upsert, shopify, TypeOK, Calls, Rows, Carried, SaveIsDue, Numbered,
                InstalledHasToken, SubscribedIsStored, DeadRowIsDue
<1>5. CASE Save(h)
    BY <1>4, <1>5 DEF Save, shopify, TypeOK, Calls, Carried, SaveIsDue, Numbered
<1>6. CASE SaveLost(h)
    BY <1>4, <1>6 DEF SaveLost, Fault, shopify, TypeOK, Calls, Idle, Carried, SaveIsDue, Numbered
<1>7. CASE Register(h)
    <2>1. TypeOK'
        BY <1>7 DEF Register, Registering, NextTopic, Topic, TypeOK, Calls
    <2>2. Carried' /\ SaveIsDue' /\ Numbered'
        BY <1>7 DEF Register, Registering, NextTopic, TypeOK, Calls, Carried, SaveIsDue, Numbered
    <2>3. InstalledHasToken' /\ SubscribedIsStored' /\ DeadRowIsDue'
        BY <1>7 DEF Register, Registering, Carried, InstalledHasToken,
                    SubscribedIsStored, DeadRowIsDue
    <2>4. QED BY <2>1, <2>2, <2>3
<1>8. CASE RegisterRefused(h)
    BY <1>8 DEF RegisterRefused, Registering, NextTopic, Fault, shopify, TypeOK, Calls,
                Carried, SaveIsDue, Numbered, InstalledHasToken, SubscribedIsStored, DeadRowIsDue
<1>9. CASE RegisterFails(h)
    BY <1>9 DEF RegisterFails, Registering, Fault, shopify, TypeOK, Calls,
                Carried, SaveIsDue, Numbered, InstalledHasToken, SubscribedIsStored, DeadRowIsDue
<1>10. CASE Finish(h)
    BY <1>10 DEF Finish, shopify, TypeOK, Calls, Idle, Carried, SaveIsDue, Numbered,
                 InstalledHasToken, SubscribedIsStored, DeadRowIsDue
<1>11. QED BY <1>1, <1>2, <1>3, <1>5, <1>6, <1>7, <1>8, <1>9, <1>10 DEF Complete

-----------------------------------------------------------------------------
(***************************************************************************)
(* The webhooks.                                                           *)
(***************************************************************************)

\* A row that was marked is not installed, and no row comes into being or goes.
LEMMA MarkedRow == ASSUME TypeOK, InstalledHasToken, MarkUninstalled
                   PROVE  /\ row' \in Rows /\ InstalledHasToken'
                          /\ row'.state # "installed"
                          /\ (row'.state = "none") <=> (row.state = "none")
    BY DEF TypeOK, Rows, InstalledHasToken, MarkUninstalled, NoToken

LEMMA DeliverStep == ASSUME IInv, NEW m \in mail, AppUninstalled(m) \/ ShopRedact(m)
                     PROVE  IInv'
<1> USE DEF IInv
<1>1. MarkUninstalled /\ Answer(m)
        /\ UNCHANGED <<begun, cookie, call, app, install, codes, subscribed, redactDue>>
    BY DEF AppUninstalled, ShopRedact
<1>2. mail' \subseteq Mails /\ faults' \in Nat
    <2>1. [m EXCEPT !.carried = TRUE] \in Mails
        BY DEF TypeOK, Mails
    <2>2. CASE mail' = mail \ {m} /\ UNCHANGED faults
        BY <2>2 DEF TypeOK
    <2>3. CASE mail' = (mail \ {m}) \cup {[m EXCEPT !.carried = TRUE]} /\ Fault
        <3>1. mail' \subseteq Mails
            BY <2>1, <2>3 DEF TypeOK
        <3>2. faults' \in Nat
            BY <2>3 DEF Fault, TypeOK
        <3>3. QED BY <3>1, <3>2
    <2>4. QED BY <1>1, <2>2, <2>3 DEF Answer
<1>3. TypeOK'
    BY <1>1, <1>2, MarkedRow DEF TypeOK
<1>4. Carried' /\ SaveIsDue' /\ Numbered'
    BY <1>1, MarkedRow DEF Carried, SaveIsDue, Numbered
<1>5. InstalledHasToken' /\ SubscribedIsStored' /\ DeadRowIsDue'
    BY <1>1, MarkedRow DEF SubscribedIsStored, DeadRowIsDue
<1>6. QED BY <1>3, <1>4, <1>5

-----------------------------------------------------------------------------
LEMMA NextIInv == IInv /\ [Next]_vars => IInv'
<1> SUFFICES ASSUME IInv, [Next]_vars PROVE IInv'
    OBVIOUS
<1> USE DEF IInv
<1>1. CASE Begin
    <2>1. TypeOK'
        BY <1>1 DEF Begin, shopify, TypeOK, Codes
    <2>2. QED BY <1>1, <2>1 DEF Begin, shopify, Carried, SaveIsDue, Numbered,
                                InstalledHasToken, SubscribedIsStored, DeadRowIsDue
<1>2. CASE CookieExpires
    BY <1>2 DEF CookieExpires, shopify, TypeOK, Carried, SaveIsDue, Numbered,
                InstalledHasToken, SubscribedIsStored, DeadRowIsDue
<1>3. ASSUME NEW s \in 1..begun, Approve(s) PROVE IInv'
    <2>1. install' \in Nat \ {0} /\ install <= install'
        BY <1>3 DEF Approve, TypeOK, Numbered, NoToken
    <2>2. TypeOK'
        <3>1. codes' \subseteq Codes
            <4>1. [state |-> s, install |-> install', used |-> FALSE] \in Codes
                BY <2>1 DEF TypeOK, Codes
            <4>2. QED BY <1>3, <4>1 DEF Approve, TypeOK
        <3>2. \A k \in codes' : k.state <= begun' /\ k.install <= install'
            BY <1>3, <2>1 DEF Approve, TypeOK, Codes
        <3>3. QED BY <1>3, <2>1, <3>1, <3>2 DEF Approve, TypeOK
    <2>3. Carried' /\ SaveIsDue' /\ Numbered'
        BY <1>3, <2>1 DEF Approve, Carried, SaveIsDue, Numbered, NoToken
    <2>4. InstalledHasToken' /\ SubscribedIsStored' /\ DeadRowIsDue'
        BY <1>3 DEF Approve, InstalledHasToken, SubscribedIsStored, DeadRowIsDue
    <2>5. QED BY <2>2, <2>3, <2>4
<1>4. ASSUME NEW h \in Callbacks, NEW k \in codes, Callback(h, k) PROVE IInv'
    <2>1. [Idle EXCEPT !.pc = "exchange", !.code = k.state] \in Calls
        BY DEF TypeOK, Codes, Calls, Idle, NoToken
    <2>2. TypeOK'
        BY <1>4, <2>1 DEF Callback, shopify, TypeOK
    <2>3. Carried' /\ SaveIsDue' /\ Numbered'
        BY <1>4 DEF Callback, shopify, TypeOK, Idle, Carried, SaveIsDue, Numbered
    <2>4. InstalledHasToken' /\ SubscribedIsStored' /\ DeadRowIsDue'
        BY <1>4 DEF Callback, shopify, InstalledHasToken, SubscribedIsStored, DeadRowIsDue
    <2>5. QED BY <2>2, <2>3, <2>4
<1>5. ASSUME NEW h \in Callbacks, Complete(h) PROVE IInv'
    BY <1>5, CompleteStep
<1>6. ASSUME NEW h \in Callbacks, Break(h) PROVE IInv'
    <2>1. TypeOK'
        BY <1>6 DEF Break, Fault, shopify, TypeOK, Calls, Idle, NoToken
    <2>2. Carried' /\ SaveIsDue' /\ Numbered'
        BY <1>6 DEF Break, shopify, TypeOK, Idle, Carried, SaveIsDue, Numbered
    <2>3. InstalledHasToken' /\ SubscribedIsStored' /\ DeadRowIsDue'
        BY <1>6 DEF Break, shopify, InstalledHasToken, SubscribedIsStored, DeadRowIsDue
    <2>4. QED BY <2>1, <2>2, <2>3
<1>7. CASE Remove
    <2>1. install \in Nat \ {0}
        BY <1>7 DEF Remove, TypeOK, Numbered, NoToken
    <2>2. mail' \subseteq Mails
        <3>1. [topic |-> Topic[2], install |-> install, carried |-> FALSE] \in Mails
            BY <2>1 DEF Mails, Topic
        <3>2. QED BY <1>7, <3>1 DEF Remove, TypeOK
    <2>3. TypeOK'
        BY <1>7, <2>2 DEF Remove, TypeOK
    <2>4. Carried' /\ SaveIsDue' /\ Numbered'
        BY <1>7, <2>1 DEF Remove, Carried, SaveIsDue, Numbered, NoToken
    <2>5. InstalledHasToken' /\ SubscribedIsStored' /\ DeadRowIsDue'
        BY <1>7 DEF Remove, InstalledHasToken, SubscribedIsStored, DeadRowIsDue
    <2>6. QED BY <2>3, <2>4, <2>5
<1>8. CASE SendRedact
    <2>1. install \in Nat \ {0}
        BY <1>8 DEF SendRedact, TypeOK, Numbered, NoToken
    <2>2. mail' \subseteq Mails
        <3>1. [topic |-> "shop/redact", install |-> install, carried |-> FALSE] \in Mails
            BY <2>1 DEF Mails
        <3>2. QED BY <1>8, <3>1 DEF SendRedact, TypeOK
    <2>3. TypeOK'
        BY <1>8, <2>2 DEF SendRedact, TypeOK
    <2>4. Carried' /\ SaveIsDue' /\ Numbered'
        BY <1>8 DEF SendRedact, Carried, SaveIsDue, Numbered
    <2>5. InstalledHasToken' /\ SubscribedIsStored' /\ DeadRowIsDue'
        BY <1>8 DEF SendRedact, InstalledHasToken, SubscribedIsStored, DeadRowIsDue
    <2>6. QED BY <2>3, <2>4, <2>5
<1>9. CASE Deliver
    BY <1>9, DeliverStep DEF Deliver
<1>10. CASE UNCHANGED vars
    BY <1>10 DEF vars, shopify, TypeOK, Carried, SaveIsDue, Numbered,
                 InstalledHasToken, SubscribedIsStored, DeadRowIsDue
<1>11. QED BY <1>1, <1>2, <1>3, <1>4, <1>5, <1>6, <1>7, <1>8, <1>9, <1>10 DEF Next

LEMMA InvariantHolds == Spec => []IInv
    BY InitIInv, NextIInv, PTL DEF Spec

-----------------------------------------------------------------------------
\* Every variable keeps its type, through reloads, reinstalls and failures.
THEOREM TypeCorrect == Spec => []TypeOK
    BY InvariantHolds, PTL DEF IInv

\* What Find returns holds a token, and a revoked row holds none.
THEOREM InstalledRowsHoldTokens == Spec => []InstalledHasToken
    BY InvariantHolds, PTL DEF IInv

\* No webhook is subscribed to before the token it would be served with is stored.
THEOREM StoredBeforeSubscribed == Spec => []SubscribedIsStored
    BY InvariantHolds, PTL DEF IInv

\* A row whose installation has ended has a webhook ahead that will mark it.
THEOREM RemovalReachesTheRow == Spec => []DeadRowIsDue
    BY InvariantHolds, PTL DEF IInv

-----------------------------------------------------------------------------
(***************************************************************************)
(* What a code buys.  A browser may send the same callback again, and two  *)
(* requests may carry one code at the same time; Shopify exchanges it once.*)
(***************************************************************************)
Past(h) == call[h].pc \in {"save", "register"}

Bought(code, token) == \E k \in codes : k.state = code /\ k.used /\ k.install = token

\* Every token the service holds was bought with a code of that installation, and
\* with one code one callback at most gets past Exchange: a reload never saves a
\* second token, however it interleaves with the first.
OneTokenPerCode ==
    /\ \A h \in Callbacks : Past(h) => Bought(call[h].code, call[h].token)
    /\ \A g, h \in Callbacks : Past(g) /\ Past(h) /\ call[g].code = call[h].code => g = h
    /\ row.token # NoToken => \E k \in codes : k.used /\ k.install = row.token

\* Shopify issues one code for an install request.
CodesDiffer == \A k, l \in codes : k.state = l.state => k = l

\* A code that was spent stays spent.
LEMMA SpentStays ==
    ASSUME TypeOK, [Next]_vars, NEW k \in codes, k.used
    PROVE  k \in codes'
<1>1. ASSUME NEW h, codes' = Used(h) PROVE k \in codes'
    <2>1. [k EXCEPT !.used = TRUE] = k
        BY DEF TypeOK, Codes
    <2>2. QED BY <1>1, <2>1 DEF Used
<1>2. ASSUME NEW h \in Callbacks, Complete(h) PROVE k \in codes'
    BY <1>1, <1>2 DEF Complete, Exchange, ExchangeRefused, ExchangeLost, Save, SaveLost,
       Register, RegisterRefused, RegisterFails, Finish, shopify
<1>3. ASSUME NEW st, Approve(st) PROVE k \in codes'
    BY <1>3 DEF Approve
<1>4. QED BY <1>2, <1>3 DEF Next, Begin, CookieExpires, Callback, Break, Remove, SendRedact,
          Deliver, AppUninstalled, ShopRedact, shopify, vars

LEMMA CodesDifferStep == TypeOK /\ CodesDiffer /\ [Next]_vars => CodesDiffer'
<1> SUFFICES ASSUME TypeOK, CodesDiffer, [Next]_vars PROVE CodesDiffer'
    OBVIOUS
<1>1. ASSUME NEW h, codes' = Used(h) PROVE CodesDiffer'
    <2> SUFFICES ASSUME NEW k \in Used(h), NEW l \in Used(h), k.state = l.state PROVE k = l
        BY <1>1 DEF CodesDiffer
    <2>1. PICK a \in codes : k = IF a.state = call[h].code THEN [a EXCEPT !.used = TRUE] ELSE a
        BY DEF Used
    <2>2. PICK b \in codes : l = IF b.state = call[h].code THEN [b EXCEPT !.used = TRUE] ELSE b
        BY DEF Used
    <2>3. k.state = a.state /\ l.state = b.state
        BY <2>1, <2>2 DEF TypeOK, Codes
    <2>4. a = b
        BY <2>3 DEF CodesDiffer
    <2>5. QED BY <2>1, <2>2, <2>4
<1>2. ASSUME NEW h \in Callbacks, Complete(h) PROVE CodesDiffer'
    <2>1. codes' = Used(h) \/ codes' = codes
        BY <1>2 DEF Complete, Exchange, ExchangeRefused, ExchangeLost, Save, SaveLost,
           Register, RegisterRefused, RegisterFails, Finish, shopify
    <2>2. QED BY <1>1, <2>1 DEF CodesDiffer
<1>3. ASSUME NEW st, Approve(st) PROVE CodesDiffer'
    <2>1. PICK n : n = [state |-> st, install |-> install', used |-> FALSE]
        OBVIOUS
    <2>2. n.state = st /\ codes' = codes \cup {n} /\ \A k \in codes : k.state # st
        BY <1>3, <2>1 DEF Approve
    <2>3. QED BY <2>2 DEF CodesDiffer
<1>4. QED BY <1>2, <1>3 DEF Next, Begin, CookieExpires, Callback, Break, Remove, SendRedact,
          Deliver, AppUninstalled, ShopRedact, shopify, vars, CodesDiffer

\* Only an exchange takes a callback past Exchange; what is past keeps its code
\* and its token.
LEMMA OnlyExchangeBuys ==
    ASSUME TypeOK, [Next]_vars, NEW h \in Callbacks, Past(h)'
    PROVE  \/ Exchange(h) /\ call'[h].code = call[h].code /\ call'[h].token = install
              /\ \A g \in Callbacks \ {h} : call'[g] = call[g]
           \/ Past(h) /\ call'[h].code = call[h].code /\ call'[h].token = call[h].token
<1>1. ASSUME call'[h] = call[h]
      PROVE  Past(h) /\ call'[h].code = call[h].code /\ call'[h].token = call[h].token
    BY <1>1 DEF Past
<1>2. CASE Exchange(h)
    BY <1>2 DEF Exchange, TypeOK, Calls
<1>3. CASE Save(h)
    BY <1>3 DEF Save, Past, TypeOK, Calls
<1>4. CASE Register(h) \/ RegisterRefused(h) \/ RegisterFails(h)
    <2>1. call[h].pc = "register"
        BY <1>4 DEF Register, RegisterRefused, RegisterFails, Registering
    <2>2. call'[h].code = call[h].code /\ call'[h].token = call[h].token
        BY <1>4 DEF Register, RegisterRefused, RegisterFails, NextTopic, TypeOK, Calls
    <2>3. QED BY <2>1, <2>2 DEF Past
<1>5. ~(\/ ExchangeRefused(h) \/ ExchangeLost(h) \/ SaveLost(h) \/ Finish(h) \/ Break(h)
        \/ \E k \in codes : Callback(h, k))
    <2>1. ASSUME ExchangeRefused(h) \/ ExchangeLost(h) \/ SaveLost(h) \/ Finish(h) \/ Break(h)
          PROVE  FALSE
        <3>1. call'[h] = Idle
            BY <2>1 DEF ExchangeRefused, ExchangeLost, SaveLost, Finish, Break, TypeOK
        <3>2. QED BY <3>1 DEF Past, Idle
    <2>2. ASSUME NEW k \in codes, Callback(h, k) PROVE FALSE
        <3>1. call'[h].pc = "exchange"
            BY <2>2 DEF Callback, Idle, TypeOK
        <3>2. QED BY <3>1 DEF Past
    <2>3. QED BY <2>1, <2>2
<1>6. ASSUME NEW g \in Callbacks \ {h},
             Complete(g) \/ Break(g) \/ \E k \in codes : Callback(g, k)
      PROVE  call'[h] = call[h]
    BY <1>6 DEF Complete, Exchange, ExchangeRefused, ExchangeLost, Save, SaveLost, Register,
       RegisterRefused, RegisterFails, NextTopic, Finish, Break, Callback, TypeOK
<1>7. CASE call' = call
    BY <1>1, <1>7
<1>8. QED BY <1>1, <1>2, <1>3, <1>4, <1>5, <1>6, <1>7
         DEF Next, Complete, Begin, CookieExpires, Approve, Remove, SendRedact, Deliver,
             AppUninstalled, ShopRedact, vars

\* A row gets its token from a callback past Exchange.
LEMMA RowsComeFromCalls ==
    ASSUME [Next]_vars, row'.token # NoToken
    PROVE  row'.token = row.token \/ \E h \in Callbacks : Past(h) /\ row'.token = call[h].token
<1>1. ASSUME NEW h \in Callbacks, Save(h) \/ SaveLost(h)
      PROVE  Past(h) /\ row'.token = call[h].token
    BY <1>1 DEF Save, SaveLost, Upsert, Past
<1>2. ASSUME NEW h \in Callbacks, Complete(h), ~Save(h), ~SaveLost(h) PROVE row' = row
    BY <1>2 DEF Complete, Exchange, ExchangeRefused, ExchangeLost, Register, RegisterRefused,
       RegisterFails, Finish
<1>3. MarkUninstalled => row'.token \in {NoToken, row.token}
    BY DEF MarkUninstalled
<1>4. ASSUME NEW h \in Callbacks, Break(h) \/ \E k \in codes : Callback(h, k) PROVE row' = row
    BY <1>4 DEF Break, Callback
<1>5. Begin \/ CookieExpires \/ (\E st \in 1..begun : Approve(st)) \/ Remove \/ SendRedact
        \/ UNCHANGED vars => row' = row
    BY DEF Begin, CookieExpires, Approve, Remove, SendRedact, vars
<1>6. Deliver => MarkUninstalled
    BY DEF Deliver, AppUninstalled, ShopRedact
<1>7. QED BY <1>1, <1>2, <1>3, <1>4, <1>5, <1>6 DEF Next

LEMMA OneTokenStep ==
    TypeOK /\ CodesDiffer /\ OneTokenPerCode /\ [Next]_vars => OneTokenPerCode'
<1> SUFFICES ASSUME TypeOK, CodesDiffer, OneTokenPerCode, [Next]_vars PROVE OneTokenPerCode'
    OBVIOUS
<1>1. \A code, token : Bought(code, token) => Bought(code, token)'
    BY SpentStays DEF Bought
<1>2. ASSUME NEW h \in Callbacks, Exchange(h)
      PROVE  /\ \A code, i : code = call[h].code /\ i = install => Bought(code, i)'
             /\ \A token : ~Bought(call[h].code, token)
    <2>1. PICK k \in codes : k.state = call[h].code /\ ~k.used /\ k.install = install
        BY <1>2 DEF Exchange, Valid
    <2>2. [k EXCEPT !.used = TRUE] \in codes'
        BY <1>2, <2>1 DEF Exchange, Used
    <2>3. /\ [k EXCEPT !.used = TRUE].state = call[h].code
          /\ [k EXCEPT !.used = TRUE].used
          /\ [k EXCEPT !.used = TRUE].install = install
        BY <2>1 DEF TypeOK, Codes
    <2>4. \A token : ~Bought(call[h].code, token)
        BY <2>1 DEF Bought, CodesDiffer
    <2>5. QED BY <2>2, <2>3, <2>4 DEF Bought
<1>3. ASSUME NEW h \in Callbacks, Past(h)' PROVE Bought(call[h].code, call[h].token)'
    <2>1. PICK code, token : code = call'[h].code /\ token = call'[h].token
        OBVIOUS
    <2>2. \/ Exchange(h) /\ code = call[h].code /\ token = install
          \/ Past(h) /\ code = call[h].code /\ token = call[h].token
        BY <1>3, <2>1, OnlyExchangeBuys
    <2>3. Bought(code, token)'
        BY <1>1, <1>2, <2>2 DEF OneTokenPerCode
    <2>4. QED BY <2>1, <2>3 DEF Bought
<1>4. ASSUME NEW g \in Callbacks, NEW h \in Callbacks, Past(g)', Past(h)',
             call'[g].code = call'[h].code, g # h
      PROVE  FALSE
    <2>1. CASE Exchange(h)
        <3>1. Past(g) /\ call[g].code = call[h].code
            BY <1>4, <2>1, OnlyExchangeBuys DEF Exchange, TypeOK, Calls, Past
        <3>2. QED BY <1>2, <2>1, <3>1 DEF OneTokenPerCode
    <2>2. CASE Exchange(g)
        <3>1. Past(h) /\ call[g].code = call[h].code
            BY <1>4, <2>2, OnlyExchangeBuys DEF Exchange, TypeOK, Calls, Past
        <3>2. QED BY <1>2, <2>2, <3>1 DEF OneTokenPerCode
    <2>3. CASE ~Exchange(g) /\ ~Exchange(h)
        BY <1>4, <2>3, OnlyExchangeBuys DEF OneTokenPerCode
    <2>4. QED BY <2>1, <2>2, <2>3
<1>5. ASSUME row'.token # NoToken PROVE \E k \in codes' : k.used /\ k.install = row'.token
    <2>1. PICK t : t = row'.token
        OBVIOUS
    <2>2. t = row.token \/ \E h \in Callbacks : Past(h) /\ t = call[h].token
        BY <1>5, <2>1, RowsComeFromCalls
    <2>3. PICK k \in codes : k.used /\ k.install = t
        BY <1>5, <2>1, <2>2 DEF OneTokenPerCode, Bought
    <2>4. k \in codes'
        BY <2>3, SpentStays
    <2>5. QED BY <2>1, <2>3, <2>4
<1>6. QED BY <1>3, <1>4, <1>5 DEF OneTokenPerCode

\* With one code one callback at most gets a token, and the token in a row was
\* bought with a code: for any number of callbacks, reloads and installations,
\* whatever fails in between.
THEOREM CodesBuyOneToken == Spec => []OneTokenPerCode
<1>1. Init => CodesDiffer /\ OneTokenPerCode
    BY DEF Init, CodesDiffer, OneTokenPerCode, Past, Idle
<1>2. IInv /\ CodesDiffer /\ OneTokenPerCode /\ [Next]_vars => CodesDiffer' /\ OneTokenPerCode'
    BY CodesDifferStep, OneTokenStep DEF IInv
<1>3. QED BY InvariantHolds, <1>1, <1>2, PTL DEF Spec
=============================================================================
