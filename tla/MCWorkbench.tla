----------------------------- MODULE MCWorkbench -----------------------------
(***************************************************************************)
(* Instances for TLC of the eight modules of a build's workbench, which    *)
(* share no state: a behaviour is one of one part, and the others rest.    *)
(* The topics of Workspace are parts of their own.                         *)
(***************************************************************************)
EXTENDS ModelStream, Workspace, CodeGraph, CompletionAudit, ServiceTools,
        Deploy, ReplyFiles, AppDatabase

CONSTANTS Parts, p1, p2

VARIABLE part

-----------------------------------------------------------------------------
(* ModelStream: k is a tag's name, q a quote, t a fence's tick, s a blank. *)

MCAnswer ==
  [calls : {{}},
   text  : {<<"s","w",".","s","<","k",">","w","w","<","/","k",">","w",".">>,
            <<"<","k","s","w",">","w","<","/","k",">","w","<","/">>,
            <<"w","<","w",".","n","t","t","t","f","w","w","n","w","n","t","t","t","n","w","w","w","w",".">>,
            <<"w","w",".","s","{","q","w","q",".","w">>,
            <<"<","<","k",">","<","/","k",">","k",">","w">>,
            <<"t","t","t","f","w","n","w","t","t","t","n","t","t","t","f","w","w","n","w">>}]
  \cup [calls : {{0}, {0, 1}}, text : {<<>>, <<"w">>}]

-----------------------------------------------------------------------------
(* CodeGraph: an entry, a library and an index file in a cycle, a view that *)
(* may be an orphan, a test and a note; the template has a stylesheet.      *)

AppTsx   == File(<<"src", "App">>, "tsx")
LibTs    == File(<<"src", "lib", "a">>, "ts")
IndexTs  == File(<<"src", "lib", "b", "index">>, "ts")
ViewTsx  == File(<<"src", "components", "V">>, "tsx")
TestTs   == [LibTs EXCEPT !.test = TRUE]
NotesMd  == File(<<"notes">>, "md")
UtilsTs  == File(<<"src", "lib", "utils">>, "ts")
StylesCss == File(<<"src", "styles">>, "css")

Specifier(at, parts, ext) == [at |-> at, parts |-> parts, ext |-> ext, query |-> FALSE]
Import(s, binds) == [spec |-> s, binds |-> {[name |-> n, local |-> n] : n \in binds}]
ImportAs(s, name, local) == [spec |-> s, binds |-> {[name |-> name, local |-> local]}]
Export(name, what) == [name |-> name, kind |-> what]
Text(imports, exports, body, lines) ==
  [imports |-> imports, exports |-> exports, body |-> body \cup ExportNames(exports), lines |-> lines]

MCDraft ==
  (AppTsx :> {Text({Import(Specifier("alias", <<"components", "V">>, ""), {"V"}),
                    ImportAs(Specifier("alias", <<"lib", "a">>, ""), "total", "sum")}, {}, {"V", "sum"}, 40),
              Text({Import(Specifier("relative", <<".", "lib", "a">>, "js"), {"total"}),
                    Import(Specifier("alias", <<"lib", "utils">>, ""), {"cn"})}, {}, {"V"}, 40),
              Text({Import([Specifier("relative", <<".", "b">>, "") EXCEPT !.query = TRUE], {}),
                    Import(Specifier("alias", <<"styles">>, ""), {}),
                    Import(Specifier("package", <<"react">>, ""), {"useState"})}, {}, {"useState"}, 100)})
  @@ (LibTs :> {Text({}, {Export("total", "function")}, {}, 200),
                Text({Import(Specifier("relative", <<".", "b">>, ""), {"rate"})},
                     {Export("total", "function"), Export("Rate", "type")}, {"rate"}, 100),
                Text({Import(Specifier("relative", <<"..", "components", "V">>, ""), {"V"}),
                      Import(Specifier("relative", <<".", "a">>, ""), {})},
                     {Export("total", "function")}, {}, 100)})
  @@ (IndexTs :> {Text({Import(Specifier("relative", <<"..", "a">>, ""), {"Rate"})},
                       {Export("rate", "const")}, {"Rate"}, 50)})
  @@ (ViewTsx :> {Text({Import(Specifier("alias", <<"lib", "b">>, ""), {"rate"})},
                       {Export("V", "component")}, {"rate"}, 60),
                  Text({Import(Specifier("alias", <<"lib", "a">>, ""), {"total"}),
                        Import(Specifier("relative", <<"..", "App">>, ""), {})},
                       {Export("V", "component")}, {}, 60)})
  @@ (TestTs :> {Text({Import(Specifier("relative", <<".", "a">>, ""), {"total"})}, {}, {"total"}, 20)})
  @@ (NotesMd :> {Text({Import(Specifier("alias", <<"components", "V">>, ""), {})}, {}, {"total"}, 5)})
MCBaked == {UtilsTs, StylesCss}
MCEntry == {AppTsx}
MCOrder == <<NotesMd, AppTsx, ViewTsx, TestTs, LibTs, IndexTs>>

-----------------------------------------------------------------------------
(* CompletionAudit: "app" is a file whose handlers may be empty or names    *)
(* missing, "api" one that may fake its storage.                           *)

Of(status, cites, exact, quote, missing) ==
  [status |-> status, cites |-> cites, exact |-> exact, quote |-> quote, missing |-> missing]
MCClaim ==
  {Of("proven", {"app"}, TRUE, "", ""), Of("proven", {"api"}, TRUE, "", ""),
   Of("proven", {"api"}, FALSE, "", ""), Of("proven", {"run_tests"}, TRUE, "", ""),
   Of("proven", {"invented"}, TRUE, "", ""),
   Of("contradicted", {"app"}, TRUE, "onClick={noop}", ""),
   Of("contradicted", {"app"}, TRUE, "", "Undo"), Of("other", {}, FALSE, "", "")}

Has(lines, names, fake) == [lines |-> lines, names |-> names, fake |-> fake]
MCDelivery ==
  {"app" :> Has({"onClick={noop}"}, {}, FALSE) @@ "api" :> Has({}, {}, TRUE),
   "app" :> Has({}, {"Undo"}, FALSE) @@ "api" :> Has({}, {}, FALSE),
   "app" :> Has({}, {"Undo"}, FALSE) @@ "api" :> Has({}, {}, TRUE) @@ "new" :> Has({}, {}, FALSE)}
MCExtraction == {<<"w1">>, <<"w1", "w2">>, <<"w1", "", "w1", "w2", "w3">>}

-----------------------------------------------------------------------------
(* ServiceTools: shelves with a tool that lies about itself, one that is    *)
(* recognised by its capability only, and more reads than are offered.     *)

Listed(name, hint, capability, safe, mentioned) ==
  [name |-> name, hint |-> hint, capability |-> capability, safe |-> safe, mentioned |-> mentioned]
MCShelf ==
  {{},
   {Listed("reads", "none", "none", TRUE, TRUE), Listed("plain", "none", "issue.write", TRUE, FALSE)},
   {Listed("reads", "none", "none", FALSE, FALSE), Listed("plain", "readOnly", "none", TRUE, TRUE),
    Listed("destroys", "none", "none", TRUE, FALSE)},
   {Listed("reads", "none", "repo.read", TRUE, FALSE), Listed("reads", "destructive", "none", TRUE, FALSE),
    Listed("reads", "readOnly", "none", TRUE, TRUE)}}
MCTool == UNION MCShelf

-----------------------------------------------------------------------------
(* Deploy: nothing to send, a static app, one with a function of its own,   *)
(* a server with and without app.ts.                                       *)

MCFile == <<".env", Function, "index.html", "package.json", "src/App.tsx", "src/server/app.ts",
            "src/server/index.ts", "src/server/main.py", "tsconfig.json", "vite.config.ts">>
MCSize == [p \in Range(MCFile) |-> IF p = "src/App.tsx" THEN 2 
                                     ELSE IF p \in buildFiles \ {"vite.config.ts"} THEN 0 ELSE 1]
MCApps == {[p \in paths |-> "v"] :
             paths \in {{}, {".env"}, {"src/App.tsx"}, {"src/App.tsx", "src/server/index.ts"},
                        {"src/App.tsx", Function}, {".env", "src/App.tsx", "src/server/app.ts", "package.json"}}}

-----------------------------------------------------------------------------
(* ReplyFiles: the forms of a path, an edit, a file twice, a cut block, a   *)
(* block that is no file.                                                  *)

LineOf(words) == CodeLine(words, 1, 1)
Block(form, path, raw, gap, body) ==
  [form |-> form, path |-> path, raw |-> raw, gap |-> gap, body |-> body, closed |-> TRUE]
Unclosed(block) == [block EXCEPT !.closed = FALSE]
Named(path, words) == Block("filename:", path, path, 0, <<LineOf(words)>>)

LibPath == <<"src", "lib", "api.ts">>
AppA     == Block("filename:", App, App, 0, <<AppLine, LineOf("a")>>)
AppB     == Block("language:path", App, <<"App.tsx">>, 0, <<AppLine, LineOf("b")>>)
AppTitle == Block("heading", App, <<"", "src", "App.tsx">>, 2, <<BlankLine, AppLine>>)
AppBare  == Block("none", App, NoPath, 0, <<AppLine, LineOf("c")>>)
AppEmpty == Block("filename:", App, App, 0, <<Comment(NoPath)>>)
LibNoted == Block("comment", LibPath, LibPath, 0, <<LineOf("l")>>)
LibShort == Block("path", <<"lib", "api.ts">>, <<"lib", "api.ts">>, 0, <<LineOf("m")>>)
LibEdit  == Block("heading", LibPath, <<".", "src", "lib", "api.ts">>, 1,
                  <<Mark("begin"), CodeLine("const", 0, 0), Mark("end")>>)
Root(value)  == <<CodeLine(":root", 1, 0), CodeLine(value, 0, 0), CodeLine("}", 0, 1)>>
Palette  == Block("filename:", Styles, Styles, 0, Root("--new"))
Outside  == Named(<<"..", "x.ts">>, "x")
Shell    == Block("none", NoPath, NoPath, 0, <<LineOf("npm i")>>)

MCSaid ==
  {<<>>, <<AppA>>, <<Shell, AppA, LibNoted, Named(Schema, "users")>>,
   <<AppA, AppB, Named(Index, "providers")>>, <<AppTitle, LibEdit>>, <<AppBare, Unclosed(LibNoted)>>,
   <<AppEmpty, LibShort>>, <<Named(Schema, "posts"), Named(Page, "p"), Named(Server, "s")>>,
   <<Named(<<"package.json">>, "pkg"), LibEdit>>, <<Palette, Outside>>, <<Named(Main, "m"), AppA>>}
MCExisting ==
  {(App :> <<AppLine, LineOf("old")>>) @@ (Index :> <<LineOf("own")>>)
     @@ (LibPath :> <<CodeLine("import", 0, 0), CodeLine("const", 0, 0), CodeLine("f {", 1, 0),
                      CodeLine("body", 0, 0), CodeLine("}", 0, 1)>>)
     @@ (Styles :> Root("--old") \o <<LineOf("rule")>>),
   (Page :> <<LineOf("old")>>) @@ (Schema :> <<LineOf("users")>>)}

-----------------------------------------------------------------------------
(* AppDatabase: nothing connected, or a connection from before MCP.         *)

NoStore == [row |-> NothingStored, mcp |-> Nowhere]
MCRows == {NoStore, [row |-> [project |-> p1, anon |-> TRUE, token |-> TRUE], mcp |-> Nowhere]}

-----------------------------------------------------------------------------

Topics ==
  [projects |-> {"create", "duplicate", "archive"}, settings |-> {"edit", "merge"},
   vars |-> {"addVar", "setVar", "dropVar"}, prefs |-> {"prefer"},
   brain |-> {"version"}, rules |-> {"rule"}]

Init ==
  /\ part \in Parts
  /\ WorkspaceStart /\ GraphStart(<<>>)
  /\ StreamStart(part = "stream") /\ AuditStart(part = "audit") /\ ToolsStart(part = "tools")
  /\ DeployStart(IF part = "deploy" THEN MCApps ELSE {<<>>}) /\ (part # "deploy" => ~connected)
  /\ ReplyStart(part = "reply")
  /\ part # "reply" => buildKind = [edit |-> FALSE, framework |-> "react", fullstack |-> FALSE]
  /\ DatabaseStart(IF part = "database" THEN MCRows ELSE {NoStore})

\* One part takes a step, and the others rest.
Stream   == part = "stream" /\ StreamNext
              /\ UNCHANGED <<part, workspaceVars, graphVars, auditVars, toolVars, deployVars, replyVars, databaseVars>>
Works    == part \in DOMAIN Topics /\ WorkspaceNext(Topics[part])
              /\ UNCHANGED <<part, streamVars, graphVars, auditVars, toolVars, deployVars, replyVars, databaseVars>>
Graph    == part = "graph" /\ GraphNext
              /\ UNCHANGED <<part, streamVars, workspaceVars, auditVars, toolVars, deployVars, replyVars, databaseVars>>
Audit    == part = "audit" /\ AuditNext
              /\ UNCHANGED <<part, streamVars, workspaceVars, graphVars, toolVars, deployVars, replyVars, databaseVars>>
Service  == part = "tools" /\ ToolsNext
              /\ UNCHANGED <<part, streamVars, workspaceVars, graphVars, auditVars, deployVars, replyVars, databaseVars>>
Deploys  == part = "deploy" /\ DeployNext
              /\ UNCHANGED <<part, streamVars, workspaceVars, graphVars, auditVars, toolVars, replyVars, databaseVars>>
Reads == part = "reply" /\ ReplyNext
              /\ UNCHANGED <<part, streamVars, workspaceVars, graphVars, auditVars, toolVars, deployVars, databaseVars>>
Database == part = "database" /\ DatabaseNext
              /\ UNCHANGED <<part, streamVars, workspaceVars, graphVars, auditVars, toolVars, deployVars, replyVars>>

Next == Stream \/ Works \/ Graph \/ Audit \/ Service \/ Deploys \/ Reads \/ Database

benchVars == <<part, streamVars, workspaceVars, graphVars, auditVars, toolVars, deployVars, replyVars, databaseVars>>

Spec == Init /\ [][Next]_benchVars
=============================================================================
