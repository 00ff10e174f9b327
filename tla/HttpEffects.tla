---------------------------- MODULE HttpEffects ----------------------------
(***************************************************************************)
(* The HttpOut handler: core/http/mquickjs_http.c.                         *)
(*                                                                         *)
(* libcurl calls back while curl_easy_perform runs: once per chunk of the  *)
(* body.  A chunk is [size, text]: the bytes received and how many of them *)
(* come before the first NUL, which is where strncat and strlen stop.  The *)
(* buffer realloc returns for the first chunk is not initialised, and what *)
(* it holds is taken for text the callback wrote before.                   *)
(*                                                                         *)
(* The handler sends one fixed request, so a request is named by its seed. *)
(* The replay cache is thread-local and outlives the JSContext.            *)
(***************************************************************************)
EXTENDS ReplayCache, FiniteSets

CONSTANTS
    HttpSeeds,     \* 32-byte seeds; set_seed ignores the short one
    Chunks,        \* chunks a server may send: [size, text], text <= size
    MaxGarbage,    \* bound: text found in an uninitialised buffer
    MaxResponse,   \* MTPSCRIPT_HTTP_MAX_RESPONSE_SIZE (50 MB)
    MaxSent        \* bound: bytes a server sends

ASSUME HttpAssumption ==
    /\ ShortSeed \notin HttpSeeds
    /\ Chunks \subseteq [size : Nat \ {0}, text : Nat]
    /\ \A c \in Chunks : c.text <= c.size
    /\ MaxGarbage \in Nat /\ MaxResponse \in Nat /\ MaxSent \in Nat

VARIABLES
    httpCache,     \* g_http_cache->entries
    httpSeeded,    \* g_http_cache->has_seed
    httpPc,        \* the handler: idle, execute, transfer, convert
    httpSeed,      \* its seed
    body,          \* resp->body: is it NULL, and the text it begins with
    hidden,        \* history: bytes put behind a NUL of their chunk
    error,         \* resp->error: has curl_easy_perform failed?
    sent,          \* server: bytes of the body sent so far
    ended,         \* server: it has sent the whole body
    httpAnswered,  \* history: seeds this process answered
    httpAgain,     \* history: of these, the ones the request was sent for again
    httpOut        \* history: the last answer

httpVars == <<httpCache, httpSeeded, httpPc, httpSeed, body, hidden,
              error, sent, ended, httpAnswered, httpAgain, httpOut>>

AnySeed == HttpSeeds \cup {ShortSeed}

\* The answer: JS_EXCEPTION if the object could not be made, or the object with
\* the fields that could be stored.  "status" is 0 after a failed transfer and
\* the server's otherwise; the headers are left out.  A text that finds no
\* memory is not looked at by its caller: the field has no text, or is missing.
Response ==
    [object : BOOLEAN, status : {"none", "zero", "server's"}, body : BOOLEAN, error : BOOLEAN]

NoObject == [object |-> FALSE, status |-> "none", body |-> FALSE, error |-> FALSE]

\* garbage: text that was in the buffer before the first chunk.
Body == [null : BOOLEAN, garbage : Nat, text : Nat]
NoBody == [null |-> TRUE, garbage |-> 0, text |-> 0]
NoAnswer == [result |-> "none"]

resp == <<body, hidden, error, sent, ended>>
httpHistory == <<httpAnswered, httpAgain>>

----------------------------------------------------------------------------

HttpInit ==
    /\ httpCache = <<>>
    /\ httpSeeded = FALSE
    /\ httpPc = "idle"
    /\ httpSeed = ShortSeed
    /\ body = NoBody /\ hidden = 0 /\ error = FALSE /\ sent = 0 /\ ended = FALSE
    /\ httpAnswered = {} /\ httpAgain = {}
    /\ httpOut = NoAnswer

\* The handler starts: set_seed, the hash of seed and request, cache_get.
mtpscript_http_out(s) ==
    /\ httpPc = "idle"
    /\ httpSeed' = s
    /\ httpSeeded' = (httpSeeded \/ s \in HttpSeeds)
    /\ IF httpSeeded' /\ Cached(httpCache, s)
       THEN /\ httpOut' = [result |-> "replayed", value |-> Lookup(httpCache, s)]
            /\ UNCHANGED httpPc
       ELSE /\ httpPc' = "execute"
            /\ httpOut' = NoAnswer
    /\ UNCHANGED <<httpCache, resp, httpHistory>>

\* The response is allocated, empty, and curl_easy_perform called; when one of
\* the two is not to be had the script gets an exception that is not cached.
mtpscript_http_request_execute ==
    /\ httpPc = "execute"
    /\ \/ /\ httpPc' = "transfer"
          /\ httpAgain' = httpAgain \cup ({httpSeed} \cap httpAnswered)
          /\ UNCHANGED httpOut
       \/ /\ httpPc' = "idle"
          /\ httpOut' = [result |-> "thrown"]
          /\ UNCHANGED httpAgain
    /\ UNCHANGED <<httpCache, httpSeeded, httpSeed, resp, httpAnswered>>

\* strlen(resp->body).
BodyLength == body.garbage + body.text

TooLarge(c) == BodyLength + c.size > MaxResponse

\* What is in the buffer ahead of the text: in a buffer just obtained,
\* whatever was there.
Garbage == IF body.null THEN 0 .. MaxGarbage ELSE {body.garbage}

\* Fault of RefuseChunk: the callback says it took what it did not.
RefuseChunk_Silently == UNCHANGED <<httpPc, body, hidden, error>>

\* A callback that returns less than it was given makes curl_easy_perform
\* fail.
RefuseChunk ==
    /\ error' = TRUE
    /\ httpPc' = "convert"
    /\ UNCHANGED <<body, hidden>>

\* A chunk that is too large, or finds no memory, is refused.
http_write_callback(c) ==
    /\ httpPc = "transfer"
    /\ ~ended /\ sent + c.size <= MaxSent
    /\ sent' = sent + c.size
    /\ \/ /\ ~TooLarge(c)
          /\ \E g \in Garbage :
                body' = [null |-> FALSE, garbage |-> g, text |-> body.text + c.text]
          /\ hidden' = hidden + c.size - c.text
          /\ UNCHANGED <<httpPc, error>>
       \/ RefuseChunk
    /\ UNCHANGED <<httpCache, httpSeeded, httpSeed, ended, httpHistory, httpOut>>

\* The server has sent everything.
TransferEnds ==
    /\ httpPc = "transfer"
    /\ ended' = TRUE
    /\ httpPc' = "convert"
    /\ UNCHANGED <<httpCache, httpSeeded, httpSeed, body, hidden, error, sent, httpHistory, httpOut>>

\* No connection, the ten seconds are over, the connection is lost, a header
\* does not fit: what has arrived stays in the response.
TransferFails ==
    /\ httpPc = "transfer"
    /\ error' = TRUE
    /\ httpPc' = "convert"
    /\ UNCHANGED <<httpCache, httpSeeded, httpSeed, body, hidden, sent, ended, httpHistory, httpOut>>

BodyTooLarge == ~body.null /\ BodyLength > MaxResponse

mtpscript_http_cache_put(v) ==
    httpCache' = IF httpSeeded THEN Store(httpCache, CacheSize, httpSeed, v) ELSE httpCache

\* What JS_NewObject, JS_NewString and JS_SetPropertyStr may make of the
\* response: whichever of them finds no memory, the next one is called.
Converted ==
    {v \in Response : /\ v.object /\ v.status # (IF error THEN "server's" ELSE "zero")
                      /\ v.error => error} \cup {NoObject}

\* The response, failed or not, becomes an object; whatever became of it is
\* cached and returned, and the response is freed.
Convert ==
    /\ httpPc = "convert"
    /\ httpPc' = "idle"
    /\ IF BodyTooLarge
       THEN /\ httpOut' = [result |-> "thrown"]
            /\ UNCHANGED <<httpCache, httpAnswered>>
       ELSE \E v \in Converted :
               /\ mtpscript_http_cache_put(v)
               /\ httpOut' = [result |-> "ok", value |-> v, length |-> BodyLength,
                              ended |-> ended, dropped |-> sent - body.text - hidden]
               /\ httpAnswered' = httpAnswered \cup {httpSeed}
    /\ body' = NoBody /\ hidden' = 0 /\ error' = FALSE /\ sent' = 0 /\ ended' = FALSE
    /\ UNCHANGED <<httpSeeded, httpSeed, httpAgain>>

mtpscript_http_cache_free ==
    /\ httpPc = "idle"
    /\ httpCache' = <<>>
    /\ httpSeeded' = FALSE
    /\ httpAnswered' = {} /\ httpAgain' = {}
    /\ httpOut' = NoAnswer
    /\ UNCHANGED <<httpPc, httpSeed, resp>>

HttpNext ==
    \/ \E s \in AnySeed : mtpscript_http_out(s)
    \/ mtpscript_http_request_execute
    \/ \E c \in Chunks : http_write_callback(c)
    \/ TransferEnds
    \/ TransferFails
    \/ Convert
    \/ mtpscript_http_cache_free

HttpSpec == HttpInit /\ [][HttpNext]_httpVars

----------------------------------------------------------------------------

HttpTypeOK ==
    /\ httpCache \in Seq([key : AnySeed, value : Response]) /\ Len(httpCache) <= CacheSize
    /\ httpSeeded \in BOOLEAN
    /\ httpPc \in {"idle", "execute", "transfer", "convert"}
    /\ httpSeed \in AnySeed
    /\ body \in Body /\ hidden \in Nat
    /\ error \in BOOLEAN /\ ended \in BOOLEAN
    /\ sent \in 0 .. MaxSent
    /\ httpAnswered \subseteq AnySeed /\ httpAgain \subseteq httpAnswered

\* No body above the limit reaches the script.  The callback's own check
\* does not ensure it: garbage ahead of the first chunk is not counted.
AnswerWithinLimit == httpOut.result = "ok" => httpOut.length <= MaxResponse

\* The status is the sign of a complete transfer: a refused chunk, a timeout
\* or a lost connection never comes with a status of the server, whatever
\* other field is missing, and then every byte sent is in the body or behind a
\* NUL.  The field "error" is no such sign: without memory for its text a
\* response that failed has none.  The body itself may begin with text nobody
\* sent, and lack what came after a NUL, under the server's status.
StatusOfWhole ==
    httpOut.result = "ok" /\ httpOut.value.status = "server's" =>
        httpOut.ended /\ httpOut.dropped = 0

\* Both together: what reaches the script is within the limit, and what has the
\* server's status has the server's bytes.
AnswersAreWhole == AnswerWithinLimit /\ StatusOfWhole

\* The request of a seed already answered is sent again only if the entries
\* of the cache are used up or the seed is too short to arm it; a failed
\* response counts as an answer like any other.
RequestedOnce ==
    \A s \in httpAgain : s = ShortSeed \/ Len(httpCache) = CacheSize

\* The cache implements Memo: an answer is never replaced.
HttpM == INSTANCE Memo WITH Keys <- AnySeed, Values <- Response, memo <- MemoOf(httpCache)
HttpReplayIsMemo == HttpM!Spec

=============================================================================
