-------------------------------- MODULE MCParts --------------------------------
(* Small instances of the parts. *)
EXTENDS Parts

MCAttached == [s \in Sites |-> CHOOSE b \in Bases : TRUE]

(* Gateway: what a URL may be in the document root. *)
U(is, index, slash, static) == [is |-> is, index |-> index, slash |-> slash, static |-> static]
MCPages == {U("none", {}, FALSE, FALSE), U("none", {}, FALSE, TRUE),
            U("file", {}, FALSE, TRUE), U("dir", {"html"}, TRUE, FALSE)}
MCRoots == {{}, {"php"}, {"php", "html"}, {"html"}}

(* NodeTools: one fan-out over one site. *)
Bare == [json |-> TRUE, declared |-> None, flavour |-> None, locks |-> {}, yarnrc |-> FALSE,
         metadata |-> FALSE, nvmrc |-> None, nodeVersion |-> None, engines |-> None]
MCProjects ==
  {Bare, [Bare EXCEPT !.json = FALSE],
   [Bare EXCEPT !.locks = {"bun"}, !.engines = "^20 || 18"],
   [Bare EXCEPT !.locks = {"pnpm", "npm"}, !.nodeVersion = "18"],
   [Bare EXCEPT !.declared = "pnpm", !.locks = {"yarn"}, !.yarnrc = TRUE, !.engines = "*"],
   [Bare EXCEPT !.declared = "yarn", !.flavour = "classic", !.locks = {"yarn"}]}
MCFirstOf == [r \in Ranges |-> IF r = "*" THEN None ELSE "20"]
MCManagers == {"fnm", "nvm", None}
MCForced == {"yarn", None}
================================================================================
