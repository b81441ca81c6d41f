--------------------------- MODULE MCOperationMap ---------------------------
(***************************************************************************)
(* The program's own operation map for TLC, and three more names: one that *)
(* a hook sends but the map lacks, and two that other hooks of the kernel  *)
(* would suggest and whose slots are taken.                                *)
(***************************************************************************)
EXTENDS OperationMap

(* "open", "read", "write", "create", "link", "unlink", "syslink",         *)
(* "mkdir", "rmdir", "mknod", "rename"                                     *)
ProgramOperations ==
  << <<<<111, 112, 101, 110>>, 0>>,
     <<<<114, 101, 97, 100>>, 1>>,
     <<<<119, 114, 105, 116, 101>>, 2>>,
     <<<<99, 114, 101, 97, 116, 101>>, 3>>,
     <<<<108, 105, 110, 107>>, 4>>,
     <<<<117, 110, 108, 105, 110, 107>>, 5>>,
     <<<<115, 121, 115, 108, 105, 110, 107>>, 6>>,
     <<<<109, 107, 100, 105, 114>>, 7>>,
     <<<<114, 109, 100, 105, 114>>, 8>>,
     <<<<109, 107, 110, 111, 100>>, 9>>,
     <<<<114, 101, 110, 97, 109, 101>>, 10>> >>

(* "symlink", the name that the inode_symlink hook sends                   *)
HookNames == {<<115, 121, 109, 108, 105, 110, 107>>}

(* "ioctl" and "setattr", which hash to the slot of "mkdir".               *)
CollidingNames ==
  {<<105, 111, 99, 116, 108>>, <<115, 101, 116, 97, 116, 116, 114>>}

OtherNamesToTry == HookNames \union CollidingNames
=============================================================================
