SPECIFICATION InstanceFairSpec
CONSTANTS
  ann = ann
  bob = bob
  ann1 = ann1
  ann2 = ann2
  bob1 = bob1
  cat = cat
  NoUpload = NoUpload
  MaxRuns = 3
  Accounts = {ann, bob}
  Uploads = {ann1, ann2, bob1}
  AccountOf <- Senders
  Pictures = {cat}
  PictureOf <- AllCats
  Avatars = {ann2}
  Slots = 1
INVARIANTS
  InstanceTypeOK
  DefaultServerComplete
  ShownIsServed
PROPERTIES
  DefaultNeverChanges
  GallerySpec
  EventuallyServes
  UploadsEnd
\* The last run serves for ever.
CHECK_DEADLOCK FALSE
