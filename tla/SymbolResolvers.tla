--------------------------- MODULE SymbolResolvers ---------------------------
(***************************************************************************)
(* How the frames of samples get their symbols: resolve_frame() of the     *)
(* data providers asks the ModuleMap for the module of an address, and the *)
(* resolver of the document for its symbol                                 *)
(* (snail/analysis/detail/pdb_resolver.cpp and dwarf_resolver.cpp), which  *)
(* looks for the debug information of the module on the local disk, in the *)
(* cache directory and on the servers (download.cpp).                      *)
(*                                                                         *)
(* Every resolver has its own caches of sessions and symbols; the cache    *)
(* directory belongs to all of them, those of other documents and of other *)
(* servers included.  Files are downloaded into their final place, so the  *)
(* steps of one resolver are interleaved with those of the others, and the *)
(* process of a resolver may be killed between any two.                    *)
(*                                                                         *)
(* LLVM's readers and curl are external: a reader accepts exactly the      *)
(* whole files, and a download gives what the server of this world does.   *)
(* All modules are of one process; their index in `loaded` stands for      *)
(* module_info.                                                            *)
(*                                                                         *)
(* A definition that stands directly above the one it varies, and that     *)
(* nothing uses, is the code with a plausible bug in it; README.md says    *)
(* which property notices it.                                              *)
(***************************************************************************)
EXTENDS ModuleMap

CONSTANTS
  Worlds,      \* what there is outside of the resolvers, see World
  Resolvers,
  MaxCrashes   \* bound

\* What a place on the local disk may hold of an image, and what a request to a
\* server may come to: the file, one of another build, no such file (404), no
\* answer, or an answer that breaks off.
Places   == {"absent", "own", "other"}
Replies  == {"own", "other", "missing", "refused", "broken"}
AnyLoads == <<>>

Directory == [Payloads -> Places]
Urls      == Seq(SUBSET Replies)
\* setPdbSymbolFindOptions or setDwarfSymbolFindOptions, and setModuleFilters
OptionsRequests ==
  [set : {"find options"}, search_dirs : Seq(Directory), no_default_urls : BOOLEAN, urls : Urls]
  \cup [set : {"module filters"}, mode : {"all_but_excluded", "only_included"},
        include : SUBSET Payloads, exclude : SUBSET Payloads]

World == [kind : {"pdb", "dwarf"},
          requests : Seq(OptionsRequests),    \* what the client has set before it opened the document
          default_urls : Urls,
          loads : Seq(Loads),                 \* the load events, or AnyLoads: all of them
          frames : Seq(Addresses \X Times),   \* what each resolver is asked for, in this order
          told : SUBSET Payloads,             \* the recording has the pdb info or build id
          binary : Directory,                 \* the image itself
          reference : Directory,              \* the pdb where the image says it is, if that is absolute
          next_to_module : Directory]         \* the pdb there

ASSUME WorldsAssumption == Worlds \subseteq World
ASSUME CrashesAssumption == MaxCrashes \in Nat

\* A file is downloaded in two pieces; a piece can come from the own file or from
\* another one, or be missing.
Pieces == 1 .. 2
Absent == [i \in Pieces |-> "no file"]
Empty  == [i \in Pieces |-> "none"]
Whole(origin) == [i \in Pieces |-> origin]
content(file) == IF \E o \in {"own", "other"} : file = Whole(o) THEN file[1] ELSE "unreadable"

VARIABLES
  world,
  options,    \* find options and module filters of the client
  requested,  \* requests that have been handled
  directory,  \* the cache directory: its file of each image, or Absent
  resolver,   \* the caches of each resolver, and where it is with its frame
  disturbed,  \* resolvers during whose lookup another one writes or removes the file
  crashes

settings   == <<world, options, requested>>
symbolVars == <<settings, directory, resolver, disturbed, crashes>>
allVars == <<vars, symbolVars>>

Fresh == [next |-> 1,          \* the frame to be resolved
          pc |-> "resolve",    \* step of the lookup
          server |-> 0,        \* the server that is asked, and what it gives
          reply |-> "none",
          piece |-> 0,         \* pieces written
          open |-> FALSE,      \* the file it writes is still that of the directory
          sessions |-> <<>>,   \* pdb_session_cache_, dwarf_context_cache_
          symbols |-> <<>>]    \* symbol_cache_

-----------------------------------------------------------------------------
(* The options the resolvers are constructed with: find options are set anew by each *)
(* request, patterns are added to those that are there.                              *)

DefaultOptions ==
  [search_dirs |-> <<>>, servers |-> world.default_urls,
   mode |-> "all_but_excluded", included |-> {}, excluded |-> {}]

SymbolInit ==
  /\ Init
  /\ world \in Worlds
  /\ options = DefaultOptions
  /\ requested = 0
  /\ directory = [image \in Payloads |-> Absent]
  /\ resolver = [r \in Resolvers |-> Fresh]
  /\ disturbed = {}
  /\ crashes = 0

\* The next request of the client is one of this kind.
NextRequest(kind) ==
  /\ requested < Len(world.requests)
  /\ world.requests[requested + 1].set = kind
  /\ requested' = requested + 1
  /\ UNCHANGED <<vars, world, directory, resolver, disturbed, crashes>>

SetFindOptions ==
  /\ NextRequest("find options")
  /\ LET request == world.requests[requested + 1]
     IN  options' = [options EXCEPT
                       !.search_dirs = request.search_dirs,
                       !.servers = (IF request.no_default_urls THEN <<>> ELSE world.default_urls) \o request.urls]

SetModuleFilters ==
  /\ NextRequest("module filters")
  /\ LET request == world.requests[requested + 1]
     IN  options' = [options EXCEPT !.mode = request.mode,
                                    !.included = @ \cup request.include,
                                    !.excluded = @ \cup request.exclude]

\* filter_options::check()
check(image) == IF options.mode = "only_included" THEN image \in options.included ELSE image \notin options.excluded

-----------------------------------------------------------------------------
(* The document is opened then, and its recording read before the first frame is     *)
(* resolved.                                                                          *)

AllSet    == requested = Len(world.requests)
AllLoaded == AllSet /\ world.loads # AnyLoads /\ Len(loaded) = Len(world.loads)

LoadModule ==
  /\ AllSet
  /\ IF world.loads = AnyLoads THEN \E l \in Loads : Insert(l)
     ELSE Len(loaded) < Len(world.loads) /\ Insert(world.loads[Len(loaded) + 1])
  /\ UNCHANGED symbolVars

-----------------------------------------------------------------------------
(* One frame.                                                                *)

At(r, pc) == AllLoaded /\ resolver[r].pc = pc /\ resolver[r].next <= Len(world.frames)
address(r) == world.frames[resolver[r].next][1]
Module(r)  == LET frame == world.frames[resolver[r].next] IN found(ranges, frame[1], frame[2])
Image(r)   == loaded[Module(r)].payload

\* module_key; generic symbols without a module have one of their own.
NoModule == 0
key_of_the_process(k) == IF k = 0 THEN NoModule ELSE 1
key(k) == IF k = 0 THEN NoModule ELSE loaded[k].time

\* What is known of the image: the recording tells, or the image on the disk has
\* the checksum of the recording.
info(image) ==
  \/ image \in world.told
  \/ world.kind = "pdb" /\ world.binary[image] = "own"

\* The places that are looked at before the cache directory, and what is accepted
\* there: a pdb is checked against its GUID if that is known, a binary is not
\* checked at all.
candidates(image) ==
  (IF world.kind = "dwarf" THEN <<world.binary[image]>>
   ELSE (IF info(image) THEN <<world.reference[image]>> ELSE <<>>) \o <<world.next_to_module[image]>>)
  \o [i \in DOMAIN options.search_dirs |-> options.search_dirs[i][image]]
accepted_unchecked(image, place) == place # "absent"
accepted(image, place) ==
  IF world.kind = "pdb" /\ info(image) THEN place = "own" ELSE place # "absent"
first_hit(image, i) ==
  /\ accepted(image, candidates(image)[i])
  /\ \A j \in 1 .. i - 1 : ~accepted(image, candidates(image)[j])

\* symbol_info: the image, and the build its debug information is of, or generic; and
\* whether somebody disturbed the lookup.
Symbol(image, from, raced) == [image |-> image, from |-> from, raced |-> raced]
NoSession == "generic"

\* A cache with an entry for k, which stays the one that was there.
emplaced(cache, k, entry) ==
  [x \in DOMAIN cache \cup {k} |-> IF x \in DOMAIN cache THEN cache[x] ELSE entry]

\* The frame has its symbol; the next one is resolved.
Resolved(r, sessions) ==
  LET k   == Module(r)
      at  == <<key(k), address(r)>>
      new == IF k = 0 THEN Symbol("none", NoSession, FALSE)
             ELSE LET session == sessions[key(k)]
                  IN  IF session.from = NoSession THEN Symbol(loaded[k].payload, NoSession, FALSE)
                      ELSE session
  IN  /\ resolver' = [resolver EXCEPT ![r] =
                        [Fresh EXCEPT !.next = resolver[r].next + 1,
                                      !.sessions = sessions,
                                      !.symbols = emplaced(resolver[r].symbols, at, new)]]
      /\ disturbed' = disturbed \ {r}

\* get_pdb_session(), get_dwarf_context() have come to their end.
Found(r, session) ==
  Resolved(r, emplaced(resolver[r].sessions, key(Module(r)), Symbol(Image(r), session, r \in disturbed)))
\* The resolver goes on at the given step.
Goto(r, pc) == resolver' = [resolver EXCEPT ![r].pc = pc] /\ UNCHANGED disturbed

\* The others that are at the same file.
Others(r) == {s \in Resolvers \ {r} : /\ resolver[s].pc # "resolve"
                                      /\ resolver[s].next <= Len(world.frames)
                                      /\ Image(s) = Image(r)}

\* The file may be one that another resolver is just writing.
LookInCache(r) ==
  /\ resolver' = [resolver EXCEPT ![r].pc = "cache"]
  /\ disturbed' = IF \E s \in Others(r) : resolver[s].open THEN disturbed \cup {r} ELSE disturbed

\* resolve_frame(): no module, a symbol or a session that is cached, or the
\* beginning of a lookup, with what the local disk has.
ResolveFrame(r) ==
  /\ At(r, "resolve")
  /\ UNCHANGED <<vars, settings, directory, crashes>>
  /\ LET k == Module(r)
     IN  \/ /\ k = 0 \/ key(k) \in DOMAIN resolver[r].sessions
            /\ Resolved(r, resolver[r].sessions)
         \/ /\ k # 0
            /\ key(k) \notin DOMAIN resolver[r].sessions
            /\ LET image == loaded[k].payload
               IN  \/ ~check(image) /\ Found(r, NoSession)
                   \/ /\ check(image)
                      /\ \E i \in 1 .. Len(candidates(image)) :
                           first_hit(image, i) /\ Found(r, candidates(image)[i])
                   \/ /\ check(image)
                      /\ \A i \in 1 .. Len(candidates(image)) : ~accepted(image, candidates(image)[i])
                      /\ IF info(image) THEN LookInCache(r) ELSE Found(r, NoSession)

-----------------------------------------------------------------------------
(* The cache directory and the servers.                                      *)

File(r) == directory[Image(r)]

\* check_pdb(), is_regular_file()
usable_if_there(file) == file # Absent
usable(file) ==
  IF world.kind = "pdb" THEN content(file) = "own" ELSE file # Absent

\* r changes the file, and goes on as it does.  Whoever has the file open that is
\* removed writes on into nothing.
RemoveFile(r, self) ==
  /\ directory' = [directory EXCEPT ![Image(r)] = Absent]
  /\ resolver' = [s \in Resolvers |->
                    IF s = r THEN self
                    ELSE IF s \in Others(r) THEN [resolver[s] EXCEPT !.open = FALSE] ELSE resolver[s]]
  /\ disturbed' = IF File(r) = Absent THEN disturbed ELSE disturbed \cup Others(r)

\* The next server is asked, if there is one.
NextServer(r) ==
  LET self == resolver[r]
  IN  IF self.server < Len(options.servers)
      THEN [self EXCEPT !.pc = "ask", !.server = @ + 1, !.piece = 0, !.open = FALSE, !.reply = "none"]
      ELSE [self EXCEPT !.pc = "give up", !.open = FALSE]

CheckCache(r) ==
  /\ At(r, "cache")
  /\ IF usable(File(r)) THEN Goto(r, "read")
     ELSE IF world.kind = "pdb" THEN Goto(r, "discard")
     ELSE resolver' = [resolver EXCEPT ![r] = NextServer(r)] /\ UNCHANGED disturbed
  /\ UNCHANGED <<vars, settings, directory, crashes>>

\* What cannot be used is removed; also what a failed download may have left.
Discard(r) ==
  /\ At(r, "discard")
  /\ RemoveFile(r, NextServer(r))
  /\ UNCHANGED <<vars, settings, crashes>>

\* curl_easy_perform() begins.
Ask(r) ==
  /\ At(r, "ask")
  /\ \E reply \in Replies \cap options.servers[resolver[r].server] :
       resolver' = [resolver EXCEPT ![r] =
                      CASE reply = "missing" -> NextServer(r)
                        [] reply = "refused" -> [@ EXCEPT !.pc = "discard"]
                        [] OTHER -> [@ EXCEPT !.pc = "write", !.reply = reply]]
  /\ UNCHANGED <<vars, settings, directory, disturbed, crashes>>

\* download_write_callback(): the first piece opens the file, which creates or
\* truncates it.
WritePiece(r) ==
  LET self   == resolver[r]
      i      == self.piece + 1
      origin == IF self.reply = "broken" THEN "own" ELSE self.reply
      before == IF i = 1 THEN Empty ELSE File(r)
  IN  /\ At(r, "write")
      /\ resolver' = [resolver EXCEPT ![r].piece = i, ![r].open = (i = 1 \/ self.open),
                        ![r].pc = IF self.reply = "broken" THEN "discard"
                                  ELSE IF i < Cardinality(Pieces) THEN "write" ELSE "downloaded"]
      /\ IF i = 1 \/ self.open
         THEN /\ directory' = [directory EXCEPT ![Image(r)] = [before EXCEPT ![i] = origin]]
              /\ disturbed' = disturbed \cup Others(r)
         ELSE UNCHANGED <<directory, disturbed>>
      /\ UNCHANGED <<vars, settings, crashes>>

\* try_download_file() has returned true.
Downloaded(r) ==
  /\ At(r, "downloaded")
  /\ IF world.kind = "dwarf" \/ usable(File(r)) THEN Goto(r, "read") ELSE Goto(r, "discard")
  /\ UNCHANGED <<vars, settings, directory, crashes>>

\* loadDataForPDB(), createBinary(): the file is opened again.
ReadFile(r) ==
  /\ At(r, "read")
  /\ Found(r, IF File(r) # Absent /\ content(File(r)) # "unreadable" THEN content(File(r)) ELSE NoSession)
  /\ UNCHANGED <<vars, settings, directory, crashes>>

GiveUp(r) ==
  /\ At(r, "give up")
  /\ Found(r, NoSession)
  /\ UNCHANGED <<vars, settings, directory, crashes>>

\* The process of r is killed, and the next one begins with the directory as it is.
Crash(r) ==
  /\ AllLoaded
  /\ crashes < MaxCrashes
  /\ resolver[r].pc # "resolve"
  /\ crashes' = crashes + 1
  /\ resolver' = [resolver EXCEPT ![r] = Fresh]
  /\ disturbed' = disturbed \ {r}
  /\ UNCHANGED <<vars, settings, directory>>

Step(r) ==
  \/ ResolveFrame(r) \/ CheckCache(r) \/ Discard(r) \/ Ask(r) \/ WritePiece(r)
  \/ Downloaded(r) \/ ReadFile(r) \/ GiveUp(r)

SymbolNext == SetFindOptions \/ SetModuleFilters \/ LoadModule \/ \E r \in Resolvers : Step(r) \/ Crash(r)
SymbolSpec == SymbolInit /\ [][SymbolNext]_allVars

-----------------------------------------------------------------------------
(* Properties *)

\* The client does not want symbols of an image: the last mode it has set leaves it out,
\* because of any of its requests.
Filters == {i \in 1 .. Len(world.requests) : world.requests[i].set = "module filters"}
Hidden(image) ==
  \E last \in Filters :
    /\ \A i \in Filters : i <= last
    /\ IF world.requests[last].mode = "only_included"
       THEN \A i \in Filters : image \notin world.requests[i].include
       ELSE \E i \in Filters : image \in world.requests[i].exclude

\* A frame gets the symbol of the module that was loaded at its address at its time:
\* of its image, and none if there is no such module or its image is hidden; unless
\* another module of the process was loaded at the same time, since then the two share
\* a session.
SymbolsOfTheirModules ==
  \A r \in Resolvers : \A i \in 1 .. resolver[r].next - 1 :
    LET frame  == world.frames[i]
        k      == found(ranges, frame[1], frame[2])
        symbol == resolver[r].symbols[<<key(k), frame[1]>>]
    IN  IF k = 0 THEN symbol.from = NoSession
        ELSE \/ /\ symbol.image = loaded[k].payload
                /\ Hidden(loaded[k].payload) => symbol.from = NoSession
             \/ \E j \in 1 .. Len(loaded) :
                  loaded[j].time = loaded[k].time /\ loaded[j].payload # loaded[k].payload

Sessions(r) == {resolver[r].sessions[t] : t \in DOMAIN resolver[r].sessions}
SomebodyRaced == \E r \in Resolvers : \E session \in Sessions(r) : session.raced

\* Symbols never come from a pdb of another build if the GUID is known, unless somebody
\* else changed the file between check and use.  Lookups that nobody killed leave the
\* cache directory with whole pdbs of the right build, even if they were at the same
\* file; and with whole binaries, if they were not: two downloads of a binary can leave
\* a mixture of their files, which nobody notices.
BuildsChecked ==
  /\ \A r \in Resolvers : \A session \in Sessions(r) :
       world.kind = "pdb" /\ info(session.image) /\ session.from = "other" => session.raced
  /\ /\ crashes = 0
     /\ \A r \in Resolvers : resolver[r].pc = "resolve"
     /\ world.kind = "dwarf" => ~SomebodyRaced
     => \A image \in Payloads : directory[image] # Absent =>
          content(directory[image]) \in (IF world.kind = "pdb" THEN {"own"} ELSE {"own", "other"})

\* If the image is known and not hidden, and a server or the local disk has the file, a
\* module is left without symbols only because somebody else changed the file meanwhile,
\* whatever other files are on the way.  For pdbs that holds also after downloads that
\* were killed or were at the same file; a binary in the cache directory is trusted, so
\* that half of one, or a mixture of two, stays there for good.
GivesUpForAReason ==
  \A r \in Resolvers : \A session \in Sessions(r) :
    /\ session.from = NoSession /\ ~Hidden(session.image) /\ info(session.image)
    /\ \/ \E s \in 1 .. Len(options.servers) : options.servers[s] = {"own"}
       \/ \E i \in 1 .. Len(candidates(session.image)) : candidates(session.image)[i] = "own"
    => session.raced \/ (world.kind = "dwarf" /\ (crashes > 0 \/ SomebodyRaced))
=============================================================================
