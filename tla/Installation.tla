----------------------------- MODULE Installation -----------------------------
(***************************************************************************)
(* How one store comes to be in the table shops, and how it leaves:        *)
(*                                                                         *)
(*   InstallHandler.Begin and Callback -> InstallService.Begin, Complete   *)
(*     -> Exchange, Save, RegisterWebhooks;                                *)
(*   WebhookHandler.AppUninstalled and ShopRedact -> Uninstall             *)
(*     -> MarkUninstalled.                                                 *)
(*                                                                         *)
(* Complete is four remote calls with nothing around them; callbacks run   *)
(* concurrently, the merchant removes and reinstalls the app when they     *)
(* like, and Shopify delivers a webhook until it is answered.  Shopify     *)
(* numbers its installations, and a token is the number of the             *)
(* installation it was issued for: it dies with it.  Signatures are taken  *)
(* to be right; a request refused for its signature changes nothing.       *)
(***************************************************************************)
EXTENDS Integers, FiniteSets

CONSTANTS Callbacks,   \* requests to the callback that can be in flight at once
          MaxBegins,   \* bound: install requests
          MaxInstalls, \* bound: installations
          MaxFaults    \* bound: failures

ASSUME BoundsAssumption == MaxBegins \in Nat /\ MaxInstalls \in Nat /\ MaxFaults \in Nat

VARIABLES row,        \* PostgreSQL: the store's row in shops
          begun,      \* install requests so far, each with a nonce of its own
          cookie,     \* the browser's state cookie, 0 if none
          call,       \* the invocation of Complete each callback is in
          app,        \* Shopify: whether the app is installed
          install,    \* Shopify: the number of the last installation
          codes,      \* Shopify: the authorization codes it issued
          subscribed, \* Shopify: the topics the app is told of
          redactDue,  \* Shopify: shop/redact is to be sent
          mail,       \* Shopify: webhooks to be delivered
          faults      \* failures so far

shopify == <<app, install, codes, subscribed, redactDue, mail>>
vars == <<row, begun, cookie, call, shopify, faults>>

-----------------------------------------------------------------------------
NoToken == 0

\* subscribedTopics, in order.
Topic == <<"inventory_levels/update", "app/uninstalled">>

Rows == [state : {"none", "installed", "revoked"}, token : Nat]

Codes == [state : Nat \ {0}, install : Nat \ {0}, used : BOOLEAN]

\* The number of a call's code stands for the code, 0 for none.
Calls == [pc : {"idle", "exchange", "save", "register"},
          code : Nat, token : Nat, topic : {1, 2, 3}]

Idle == [pc |-> "idle", code |-> 0, token |-> NoToken, topic |-> 1]

\* carried: the service did what the webhook asks for, its answer was lost.
Mails == [topic : {"app/uninstalled", "shop/redact"}, install : Nat \ {0}, carried : BOOLEAN]

\* Every variable keeps its type; no code is older than the nonce it answers.
TypeOK == /\ row \in Rows
          /\ begun \in Nat /\ cookie \in 0..begun
          /\ call \in [Callbacks -> Calls]
          /\ app \in BOOLEAN /\ install \in Nat
          /\ codes \subseteq Codes
          /\ \A k \in codes : k.state <= begun /\ k.install <= install
          /\ subscribed \subseteq {Topic[1], Topic[2]}
          /\ redactDue \in BOOLEAN
          /\ mail \subseteq Mails
          /\ faults \in Nat

Init == /\ row = [state |-> "none", token |-> NoToken]
        /\ begun = 0 /\ cookie = 0
        /\ call = [h \in Callbacks |-> Idle]
        /\ app = FALSE /\ install = 0
        /\ codes = {} /\ subscribed = {} /\ redactDue = FALSE /\ mail = {}
        /\ faults = 0

Fault == faults < MaxFaults /\ faults' = faults + 1

-----------------------------------------------------------------------------
(***************************************************************************)
(* The install flow.                                                       *)
(***************************************************************************)

\* Slip: the cookie gets a nonce of its own, not the one in the redirect.
BeginTwoNonces == /\ begun < MaxBegins
                  /\ begun' = begun + 1
                  /\ cookie' = begun + 2
                  /\ UNCHANGED <<row, call, shopify, faults>>

\* A nonce, handed out twice: as a cookie and in the redirect to Shopify.
Begin == /\ begun < MaxBegins
         /\ begun' = begun + 1
         /\ cookie' = begun + 1
         /\ UNCHANGED <<row, call, shopify, faults>>

\* MaxAge, ten minutes.
CookieExpires == /\ cookie # 0
                 /\ cookie' = 0
                 /\ UNCHANGED <<row, begun, call, shopify, faults>>

\* The merchant approves: the app is installed, unless it already was, and the
\* redirect back carries a code.
Approve(s) == /\ \A k \in codes : k.state # s
              /\ app \/ install < MaxInstalls
              /\ app' = TRUE
              /\ install' = IF app THEN install ELSE install + 1
              /\ codes' = codes \cup {[state |-> s, install |-> install', used |-> FALSE]}
              /\ redactDue' = FALSE
              /\ UNCHANGED <<row, begun, cookie, call, subscribed, mail, faults>>

\* Complete is entered; a callback may also come again, on a reload.
Callback(h, k) == /\ call[h].pc = "idle"
                  /\ cookie # 0 /\ cookie = k.state
                  /\ call' = [call EXCEPT ![h] = [Idle EXCEPT !.pc = "exchange", !.code = k.state]]
                  /\ UNCHANGED <<row, begun, cookie, shopify, faults>>

\* What the code of a call buys now.
Valid(h) == \E k \in codes : /\ k.state = call[h].code
                             /\ ~k.used /\ app /\ k.install = install

Used(h) == {IF k.state = call[h].code THEN [k EXCEPT !.used = TRUE] ELSE k : k \in codes}

Exchange(h) == /\ call[h].pc = "exchange"
               /\ Valid(h)
               /\ codes' = Used(h)
               /\ call' = [call EXCEPT ![h].pc = "save", ![h].token = install]
               /\ UNCHANGED <<row, begun, cookie, app, install, subscribed, redactDue, mail, faults>>

\* Slip: a 200 without a token counts as an answer.
ExchangeEmpty(h) == /\ call[h].pc = "exchange"
                    /\ ~Valid(h)
                    /\ call' = [call EXCEPT ![h].pc = "save", ![h].token = NoToken]
                    /\ UNCHANGED <<row, begun, cookie, shopify, faults>>

\* A code that was used or whose installation ended: an error, or a 200 without
\* a token, which is made one.
ExchangeRefused(h) == /\ call[h].pc = "exchange"
                      /\ ~Valid(h)
                      /\ call' = [call EXCEPT ![h] = Idle]
                      /\ UNCHANGED <<row, begun, cookie, shopify, faults>>

\* The code is spent, the token did not arrive.
ExchangeLost(h) == /\ call[h].pc = "exchange"
                   /\ Valid(h)
                   /\ codes' = Used(h)
                   /\ Fault
                   /\ call' = [call EXCEPT ![h] = Idle]
                   /\ UNCHANGED <<row, begun, cookie, app, install, subscribed, redactDue, mail>>

\* The upsert: whatever the row was, it is installed now.
Upsert(h) == row' = [state |-> "installed", token |-> call[h].token]

\* Slip: the webhooks are set up before the token is stored.
SaveLast(h) == /\ call[h].pc = "save"
               /\ call' = [call EXCEPT ![h].pc = "register"]
               /\ UNCHANGED <<row, begun, cookie, shopify, faults>>

Save(h) == /\ call[h].pc = "save"
           /\ Upsert(h)
           /\ call' = [call EXCEPT ![h].pc = "register"]
           /\ UNCHANGED <<begun, cookie, shopify, faults>>

\* The commit went through and its answer was lost: Complete returns an error.
SaveLost(h) == /\ call[h].pc = "save"
               /\ Upsert(h)
               /\ Fault
               /\ call' = [call EXCEPT ![h] = Idle]
               /\ UNCHANGED <<begun, cookie, shopify>>

-----------------------------------------------------------------------------
(***************************************************************************)
(* RegisterWebhooks, topic by topic, with the token just stored.  Whatever *)
(* goes wrong is logged and the install stands.                            *)
(***************************************************************************)
Registering(h) == call[h].pc = "register" /\ call[h].topic <= 2

Alive(token) == app /\ token = install

NextTopic(h) == call' = [call EXCEPT ![h].topic = @ + 1]

\* Accepted, or "has already been taken".
Register(h) == /\ Registering(h)
               /\ Alive(call[h].token)
               /\ subscribed' = subscribed \cup {Topic[call[h].topic]}
               /\ NextTopic(h)
               /\ UNCHANGED <<row, begun, cookie, app, install, codes, redactDue, mail, faults>>

\* Other userErrors: logged, and on with the next topic.
RegisterRefused(h) == /\ Registering(h)
                      /\ Fault
                      /\ NextTopic(h)
                      /\ UNCHANGED <<row, begun, cookie, shopify>>

\* The request failed, or the token is dead: the remaining topics are left out.
RegisterFails(h) == /\ Registering(h)
                    /\ \/ ~Alive(call[h].token) /\ UNCHANGED faults
                       \/ Fault
                    /\ call' = [call EXCEPT ![h].topic = 3]
                    /\ UNCHANGED <<row, begun, cookie, shopify>>

\* The answer takes the cookie back.
Finish(h) == /\ call[h].pc = "register" /\ call[h].topic = 3
             /\ call' = [call EXCEPT ![h] = Idle]
             /\ cookie' = 0
             /\ UNCHANGED <<row, begun, shopify, faults>>

\* A call failed without effect, the client went away, or the process died.
Break(h) == /\ call[h].pc # "idle"
            /\ Fault
            /\ call' = [call EXCEPT ![h] = Idle]
            /\ UNCHANGED <<row, begun, cookie, shopify>>

-----------------------------------------------------------------------------
(***************************************************************************)
(* The end of an installation.                                             *)
(***************************************************************************)

\* The merchant removes the app: token and subscriptions end with it.
Remove == /\ app
          /\ app' = FALSE
          /\ subscribed' = {}
          /\ redactDue' = TRUE
          /\ mail' = IF Topic[2] \in subscribed
                     THEN mail \cup {[topic |-> Topic[2], install |-> install, carried |-> FALSE]}
                     ELSE mail
          /\ UNCHANGED <<row, begun, cookie, call, install, codes, faults>>

\* shop/redact follows 48 hours later, if the app was not installed again: long
\* after every Save of a token obtained before the removal.
SendRedact == /\ redactDue
              /\ \A h \in Callbacks : call[h].pc # "save"
              /\ redactDue' = FALSE
              /\ mail' = mail \cup {[topic |-> "shop/redact", install |-> install,
                                     carried |-> FALSE]}
              /\ UNCHANGED <<row, begun, cookie, call, app, install, codes, subscribed, faults>>

\* Slip: the token is cleared, uninstalled_at is left as it is.
ClearOnly == row' = IF row.state = "installed" THEN [row EXCEPT !.token = NoToken] ELSE row

\* update shops ... where uninstalled_at is null: no row, no change.
MarkUninstalled == row' = IF row.state = "installed"
                          THEN [state |-> "revoked", token |-> NoToken]
                          ELSE row

\* A webhook is delivered until it is answered.
Answer(m) == \/ mail' = mail \ {m} /\ UNCHANGED faults
             \/ mail' = (mail \ {m}) \cup {[m EXCEPT !.carried = TRUE]} /\ Fault

AppUninstalled(m) == /\ m.topic = "app/uninstalled"
                     /\ MarkUninstalled
                     /\ Answer(m)
                     /\ UNCHANGED <<begun, cookie, call, app, install, codes, subscribed, redactDue>>

\* Slip: shop/redact is answered like the customers' webhooks, with a log line.
ShopRedactLogsOnly(m) ==
    /\ m.topic = "shop/redact"
    /\ Answer(m)
    /\ UNCHANGED <<row, begun, cookie, call, app, install, codes, subscribed, redactDue>>

ShopRedact(m) == /\ m.topic = "shop/redact"
                 /\ MarkUninstalled
                 /\ Answer(m)
                 /\ UNCHANGED <<begun, cookie, call, app, install, codes, subscribed, redactDue>>

-----------------------------------------------------------------------------
Complete(h) == \/ Exchange(h) \/ ExchangeRefused(h) \/ ExchangeLost(h)
               \/ Save(h) \/ SaveLost(h)
               \/ Register(h) \/ RegisterRefused(h) \/ RegisterFails(h)
               \/ Finish(h)

Deliver == \E m \in mail : AppUninstalled(m) \/ ShopRedact(m)

Next == \/ Begin \/ CookieExpires
        \/ \E s \in 1..begun : Approve(s)
        \/ \E h \in Callbacks, k \in codes : Callback(h, k)
        \/ \E h \in Callbacks : Complete(h) \/ Break(h)
        \/ Remove \/ SendRedact \/ Deliver

Spec == Init /\ [][Next]_vars

\* A callback that was taken up goes on, Shopify sends what is due and delivers
\* until it is answered.  The merchant owes nothing.
Fairness == /\ \A h \in Callbacks : WF_vars(Complete(h))
            /\ WF_vars(SendRedact) /\ WF_vars(Deliver)

FairSpec == Spec /\ Fairness

-----------------------------------------------------------------------------
(***************************************************************************)
(* Properties                                                              *)
(***************************************************************************)

\* Find filters by uninstalled_at alone, so a row it returns must hold a token,
\* and a revoked row must hold none: through reinstalls, spent codes that
\* Shopify answers with an empty token, and webhooks in any order.
InstalledHasToken == (row.state = "installed") <=> (row.token # NoToken)

\* "Webhooks registered for a store whose token was never stored produce
\* nothing but incoming calls that cannot be served": no subscription without a
\* row, whichever step of Complete fails.
SubscribedIsStored == subscribed # {} => row.state # "none"

\* A row that Find returns although its token is dead is on its way to be marked:
\* the removal is still to be announced, whatever overtook whatever, also when
\* the topic app/uninstalled was never registered.
DeadRowIsDue == row.state = "installed" /\ ~app => redactDue \/ mail # {}

\* A store that removed the app for good is marked in the end, also when its
\* webhooks could not be registered, when the removal overtook the Save of its
\* installation, and when answers are lost: otherwise every later sync is a 401.
RemovedIsMarked == <>[](~app) => <>[](row.state # "installed")

\* Uninstall: "a repeat must have no effect beyond the same outcome".  A repeat
\* that arrives after the merchant has reinstalled revokes the new installation.
RepeatHasNoEffect ==
    [][row.state = "installed" /\ row'.state = "revoked" =>
         \E m \in mail : ~m.carried /\ m \notin mail']_vars
=============================================================================
