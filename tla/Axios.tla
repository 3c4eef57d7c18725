--------------------------------- MODULE Axios ---------------------------------
(***************************************************************************)
(* A request of axios as the pages make it: get or post with a URL and, for *)
(* post, a body.  The pages register no interceptor, pass no cancel token   *)
(* and set no time limit, so between the click and XMLHttpRequest.send       *)
(* nothing else runs, and so is the way back from the event of the           *)
(* XMLHttpRequest to the handler of the page.                                *)
(***************************************************************************)
EXTENDS Naturals, Sequences

CONSTANT MaxRequests    \* how many requests are made (a bound of the model)

\* What JavaScript and JSON make of text: the empty one and a missing property.
Empty == ""
Undefined == "undefined"

\* The part of a response the pages look at.  Text is a body JSON.parse does
\* not accept: it is kept as a string, which has none of the properties.
Body(code, msg, message, value) ==
    [code |-> code, msg |-> msg, message |-> message, value |-> value]
Text == Body(Undefined, Undefined, Undefined, Undefined)
HttpReply(status, body) == [status |-> status, body |-> body]
NoReply == HttpReply(0, Text)

\* xhr[i] is the i-th request: who made it, what was asked, whether it is on
\* its way or answered, and with what; the adapter's variable "request", which
\* is null once the promise is settled and gone with the document; and how
\* the promise was settled.
VARIABLE xhr

Made == DOMAIN xhr
Open(i) == xhr[i].request = "open"

\* Mutant of BodySent: the body is turned into a string, whatever it is.
BodySentAsString(data) == data

\* transformRequest leaves a string as it is, and the adapter sends null for
\* everything that counts as false: an undefined body arrives empty.
BodySent(data) == IF data = Undefined THEN Empty ELSE data

\* axios.get and axios.post: Axios.request, dispatchRequest and the adapter up
\* to send.
Send(owner, config) ==
    /\ Len(xhr) < MaxRequests
    /\ xhr' = Append(xhr, [owner |-> owner, config |-> config,
                           net |-> "travelling", reply |-> NoReply,
                           request |-> "open", outcome |-> "pending"])

\* The other side has answered request i.
Arrive(i, reply) ==
    /\ xhr[i].net = "travelling"
    /\ xhr' = [xhr EXCEPT ![i] = [@ EXCEPT !.net = "answered", !.reply = reply]]

validateStatus(status) == 200 <= status /\ status < 300

\* settle
Settle(reply) == IF validateStatus(reply.status) THEN "resolved" ELSE "rejected"

\* onloadend of an answered request
LoadEnd(i) ==
    /\ Open(i)
    /\ xhr[i].net = "answered"
    /\ xhr' = [xhr EXCEPT ![i] = [@ EXCEPT !.request = "null",
                                          !.outcome = Settle(xhr[i].reply)]]

\* onerror: the connection failed, before or after the server has seen the
\* request.  The loadend that follows finds "request" null and does nothing.
HandleError(i) ==
    /\ Open(i)
    /\ xhr' = [xhr EXCEPT ![i] = [@ EXCEPT !.request = "null", !.outcome = "rejected"]]

\* The document that made the requests in gone is no longer there.
Unload(gone) ==
    xhr' = [i \in Made |-> IF i \in gone /\ Open(i)
                           THEN [xhr[i] EXCEPT !.request = "gone"] ELSE xhr[i]]
===============================================================================
