----------------------------- MODULE MCWebServer -----------------------------
(* Small instances of WebServer for TLC.                                      *)
EXTENDS WebServer, TLC

CONSTANTS c1, c2

ConnectionSymmetry == Permutations({c1, c2})

Request(method, path, body, name, text) ==
    [method |-> method, path |-> path, body |-> body, name |-> name,
     text |-> text, origin |-> TRUE, host |-> TRUE, right |-> FALSE]

Text(name, constructor, image) ==
    [name |-> name, runtime |-> "pg", constructor |-> constructor,
     images |-> {image}, built |-> TRUE]
MCStoredConfig == [p \in {"engines", "profiles"} \X {"a", "b"} |->
    IF p = <<"engines", "a">> THEN Text("a", "A", "a") ELSE None]

Row(engine, qps, version) == [engine |-> engine, phase |-> "recall", qps |-> qps,
                              recall |-> 90, version |-> version]
Run(records) == [members |-> {Manifest}, label |-> None, profile |-> "full",
                 records |-> records]
MCStored == [id \in {"old", "mixed", "new"} |->
    CASE id = "old" -> Run(<<Row("a", 5, 1), Row("b", 3, 1), Row("b", 2, 1)>>)
      [] id = "mixed" -> Run(<<Row("a", 5, 1), Row("a", 3, 2)>>)
      [] id = "new" -> None]
MCArchives == [good |-> [top |-> "new", members |-> <<Manifest, "records">>,
                         sane |-> TRUE],
               bare |-> [top |-> "new", members |-> <<"records">>, sane |-> TRUE]]

MCOptions == {[control |-> TRUE, auth |-> TRUE], [control |-> FALSE, auth |-> FALSE]}

MCRequests == {
    Request("POST", "login", 1, None, None),
    [Request("POST", "login", 1, None, None) EXCEPT !.right = TRUE],
    Request("POST", "logout", 1, None, None),
    Request("GET", "page", 0, None, None),
    Request("PUT", "page", 1, None, None),
    Request("GET", "page-of-sign-in", 0, None, None),
    Request("GET", "health", 0, None, None),
    Request("GET", "asset", 0, "old", None),
    [Request("GET", "page", 0, None, None) EXCEPT !.host = FALSE],
    [Request("POST", "import", 2, None, "good") EXCEPT !.origin = FALSE],
    Request("POST", "import", 2, None, "good"),
    Request("POST", "import", 2, "new", "bare"),
    Request("POST", "import", 0, "new", "good"),
    Request("GET", "runs", 0, None, None),
    Request("GET", "records", 0, "old", [engine |-> {"b"}]),
    Request("GET", "records", 0, "mixed", [engine |-> {"b"}]),
    Request("GET", "setup", 0, None, None),
    Request("POST", "setup", 1, None, None),
    Request("GET", "engines", 0, "a", None),
    Request("PUT", "engines", 1, "b", Text("b", "B", "b")),
    Request("PUT", "engines", 1, "b", Text("b", "A", "a")),
    Request("PUT", "engines", 1, "b", NotJson),
    Request("PUT", "profiles", 1, "a", [name |-> "a", datasets |-> {"d"}]),
    Request("POST", "validate", 1, "b", Text("b", "A", "b")),
    Request("POST", "clone", 1, "b", "a"),
    Request("PUT", "label", 1, "old", "mine"),
    Request("PUT", "label", 1, "new", "")}
=============================================================================
