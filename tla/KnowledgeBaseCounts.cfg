SPECIFICATION CountSpec
CONSTANTS
  NoUpload = NoUpload
  Docs = {d1}
  Uploads = {u1, u2}
  DocCap = 1
  MaxUploads = 1
  MaxDeletes = 1
INVARIANTS CountSettles
CHECK_DEADLOCK FALSE
