-------------------------- MODULE MCDocumentRetrieval --------------------------
(* One page of every connector with one process, and two processes that       *)
(* retrieve the same document from a server and onto a disk that do as they    *)
(* like.                                                                       *)
EXTENDS DocumentRetrieval

Url(scheme, host, path) ==
  [scheme |-> scheme, host |-> host, user |-> FALSE, path |-> path, noise |-> None]
Link(id, url, round) ==
  [id |-> id, url |-> url, access |-> "public", words |-> {}, round |-> round,
   direct |-> TRUE, text |-> "likely"]
Behind(link, access, word) == [link EXCEPT !.access = access, !.words = {word, "restricted"}]

Rfp == Link("d1", Url("https", "portal", "rfp"), 1)
Sow == Link("d2", Url("https", "portal", "sow"), 1)
Revised == Link("d1", Url("https", "portal", "rfp2"), 2)
Closed == Behind(Link("d3", Url("https", "portal", "closed"), 1), "login_required", "login")
Forms == Behind(Link("d4", Url("https", "portal", "forms"), 1), "registration_required", "register")
Insecure == Link("d5", Url("http", "portal", "plain"), 1)
Supplier == Link("d6", Url("https", "supplier", "far"), 1)
Local == Link("d7", Url("https", "local", "x"), 1)
Named == [Link("d8", Url("https", "portal", "user"), 1) EXCEPT !.url.user = TRUE]
Help == [Link("d9", Url("https", "portal", "help"), 1) EXCEPT !.text = "unlikely"]

Pages ==
  { << Rfp, Closed, Sow, Revised >>, << Closed, Rfp, Rfp, Forms >>,
    << Insecure, Local, Rfp, Supplier >>, << Named, Help, Sow >>,
    << Help, Closed, Forms, Sow, Rfp >> }

Reply(status, to, declared, chunks, html, words) ==
  [status |-> status, to |-> to, declared |-> declared, chunks |-> chunks,
   html |-> html, words |-> words, body |-> "k1"]
Ok(chunks) == Reply(200, Nil, Nil, chunks, FALSE, {})
To(url) == Reply(302, url, Nil, 0, FALSE, {})
Status(n) == Reply(n, Nil, Nil, 1, FALSE, {})

OnHost(path) == Url("https", "portal", path)
Hops ==
  { To(Nil), To(OnHost("rfp")), To(OnHost("a")), To(OnHost("b")), To(OnHost("c")),
    To(Url("http", "portal", "a")), To(Url("https", "files", "a")), To(Url("http", "files", "b")),
    To(Url("https", "elsewhere", "a")), To(Url("https", "inner", "a")), To(Url("https", "local", "a")),
    To(Url("https", Nil, "a")), Ok(1) }
Bodies ==
  { Ok(0), Ok(1), Ok(2), Ok(99), Reply(200, Nil, 9, 1, FALSE, {}), Reply(200, Nil, Nil, 1, TRUE, {}),
    Reply(200, Nil, Nil, 1, TRUE, {"login", "maintenance"}),
    Reply(403, Nil, Nil, 1, FALSE, {}), Reply(403, Nil, Nil, 1, TRUE, {"captcha"}),
    To(Url("http", "portal", "a")) }
  \cup {Status(n) : n \in {304, 401, 404, 413, 415, 451, 418, 503}}

CONSTANTS p1, p2

MCPid == (p1 :> 1) @@ (p2 :> 2)
MCSettings ==
  [family : DocumentFamilies, links : Pages, running : {{p1}}, fetches : {1}, replies : {{Ok(1)}}]
  \cup [family : {"texas"}, links : {<<Rfp, Insecure>>}, running : {{p1}}, fetches : {1},
        replies : {Hops, Bodies}]
  \cup [family : {"texas"}, links : {<<Rfp>>}, running : {{p1, p2}}, fetches : {2},
        replies : {{Ok(1)}}]
  \cup [family : {"texas"}, links : {<<Rfp>>}, running : {{p1}}, fetches : {3},
        replies : {{Ok(1), Status(304), [Ok(1) EXCEPT !.body = "k2"]}}]
================================================================================
